---- MODULE Spec2Model ----
(***************************************************************************)
(* A model of six parts of tri.js.                                         *)
(*                                                                         *)
(* 1. The LRU cache of src/core/LRU.ts: the NodeItem objects on the heap,  *)
(* the doubly linked LinkedList (head, tail, len) and the LRU (linkedList, *)
(* map, limit) with its operations has, put, get and clear.                *)
(*                                                                         *)
(* Encoding.  A NodeItem reference is a number of NodeIds, the JavaScript  *)
(* null reference is Null.  A stored value of type T is a number of        *)
(* 1..MaxValue, the JavaScript value null is Null.  A key is a number i of *)
(* Keys and stands for the string "k<i>".                                  *)
(*                                                                         *)
(* 2. The four-point solver of fourPointsTransform.ts: determinate,        *)
(* buildTransformer and the functions that buildTransformer returns.       *)
(*                                                                         *)
(* 3. The Bezier curves of curve.ts: quadraticAt, quadraticDerivativeAt,   *)
(* quadraticRootAt, quadraticSubdivide, cubicAt, cubicDerivativeAt,        *)
(* cubicExtrema, cubicRootAt and cubicSubdivide, with create and           *)
(* linearInterpolation of vector.ts.                                       *)
(*                                                                         *)
(* 4. The projection of a point to a curve, quadraticProjectAt and          *)
(* cubicProjectAt of curve.ts, one step of their loops at a time.          *)
(*                                                                         *)
(* 5. preparePointerTransformer of dom.ts and the SavedInfo it caches in.  *)
(*                                                                         *)
(* 6. The operations of vector.ts and matrix.ts with their out parameter,  *)
(* and fromQuadraticCurve and fromCubicCurve of BoundingRect.ts.           *)
(*                                                                         *)
(* Each part has its own specification; the variables of the other parts   *)
(* keep their initial values in it.                                        *)
(***************************************************************************)
EXTENDS Integers, Sequences, FiniteSets, TLC

\* Bounds of the model
NumKeys == 3
MaxValue == 2
MaxLimit == 2

Null == 0

Keys == 1..NumKeys
Values == Null..MaxValue
Limits == (-1)..MaxLimit
\* put() allocates its NodeItem before it evicts, so one more than the keys
NodeIds == 1..(NumKeys + 1)

VARIABLES
    heap,        \* the live NodeItem objects: reference -> [value, prev, next]
    linkedList,  \* LRU.linkedList: [head, tail, len]
    map,         \* LRU.map: key -> NodeItem reference
    limit,       \* LRU.limit
    lastOp,      \* the call that produced this state, see Call
    ret,         \* the value returned by that put or get (Null otherwise)
    found,       \* the boolean returned by that has (FALSE otherwise)
    touchOrder,  \* history: the keys put or successfully got since construction
                 \* or the last clear, each once, the oldest touch first
    transforms,  \* the calls of buildTransformer so far: [src, dest, vh], where
                 \* vh are the coefficients that the returned function holds,
                 \* <<>> when the call returned nothing
    usedCache,   \* the Map that the last call of buildTransformer used, <<>>
                 \* before the first call
    applied,     \* the last call of a returned function: <<k, x, y>> for the
                 \* function of transforms[k], <<>> when none since the last
                 \* buildTransformer
    out,         \* what that call wrote to out: <<out[0], out[1]>>
    alone,       \* history: what each explored call of buildTransformer returns
                 \* when it is the only call of the program
    vec,         \* the Vec2 objects on the heap: reference -> <<x, y>>
    outArr,      \* the array passed as out to quadraticSubdivide/cubicSubdivide:
                 \* the references it holds
    rootsArr,    \* the array passed as roots (or extrema): the numbers it holds
    input,       \* the arguments of the call of curve.ts, and vec, out and
                 \* roots as they were passed
    call,        \* the call of curve.ts made: [fn, ret, threw, n]
    proj,        \* the running call of quadraticProjectAt/cubicProjectAt: its
                 \* position, its local variables and what it returned
    markers,     \* the four marker elements: left and top of what
                 \* getBoundingClientRect gives for them now
    saved,       \* the SavedInfo of the element: [srcCoords, trans, invTrans]
    prepared     \* the last call of preparePointerTransformer: [called,
                 \* inverse, coords, threw, transformer]

lruVars == <<heap, linkedList, map, limit, lastOp, ret, found, touchOrder>>

transformVars == <<transforms, usedCache, applied, out, alone>>

curveVars == <<vec, outArr, rootsArr, input, call>>

projectVars == <<proj>>

pointerVars == <<markers, saved, prepared>>

vars == <<lruVars, transformVars, curveVars, projectVars, pointerVars>>

(***************************************************************************)
(* The object graph of one LRU instance, as one record.  err records that  *)
(* the running call has thrown (a TypeError on a null reference); a call   *)
(* that has thrown executes no further statement.                          *)
(***************************************************************************)
State == [heap |-> heap, linkedList |-> linkedList, map |-> map,
          limit |-> limit, err |-> FALSE]

\* class NodeItem: constructor(value, prev = null, next = null)
NodeItem(value) == [value |-> value, prev |-> Null, next |-> Null]

\* new NodeItem(...): a reference that no live object has.  Which one is the
\* allocator's choice; this one prefers the reference numbered like the key.
NewRef(w, key) ==
    IF key \notin DOMAIN w.heap THEN key
    ELSE CHOOSE n \in NodeIds : /\ n \notin DOMAIN w.heap
                                /\ \A m \in NodeIds : m \notin DOMAIN w.heap => n <= m

\* Map.prototype.set / delete
MapSet(m, key, node) ==
    [k \in (DOMAIN m) \cup {key} |-> IF k = key THEN node ELSE m[k]]

MapDelete(m, key) == [k \in (DOMAIN m) \ {key} |-> m[k]]

EmptyMap == [k \in {} |-> Null]

\* A dereference of ref throws when ref is null
Throws(w, ref) == ref \notin DOMAIN w.heap

\* LinkedList.add(node)
LinkedList_add(w, node) ==
    IF w.err THEN w
    ELSE IF Throws(w, node) THEN [w EXCEPT !.err = TRUE]
    ELSE LET w1 == [w EXCEPT !.heap[node].prev = Null, !.heap[node].next = Null]
         IN IF w1.linkedList.head = Null
            THEN [w1 EXCEPT !.linkedList.head = node,
                            !.linkedList.tail = node,
                            !.linkedList.len = @ + 1]
            ELSE IF Throws(w1, w1.linkedList.tail) THEN [w1 EXCEPT !.err = TRUE]
            ELSE [w1 EXCEPT !.heap[w1.linkedList.tail].next = node,
                            !.heap[node].prev = w1.linkedList.tail,
                            !.linkedList.tail = node,
                            !.linkedList.len = @ + 1]

\* (a slip: the back link of the successor is left as it was)
LinkedList_remove_KeepsBackLink(w, node) ==
    IF w.err THEN w
    ELSE IF Throws(w, node) THEN [w EXCEPT !.err = TRUE]
    ELSE LET prev == w.heap[node].prev
             next == w.heap[node].next
             w1 == IF prev = Null
                   THEN [w EXCEPT !.linkedList.head = next]
                   ELSE [w EXCEPT !.heap[prev].next = next]
             w2 == IF next = Null
                   THEN [w1 EXCEPT !.linkedList.tail = prev]
                   ELSE w1
         IN [w2 EXCEPT !.heap[node].next = Null,
                       !.heap[node].prev = Null,
                       !.linkedList.len = @ - 1]

\* LinkedList.remove(node)
LinkedList_remove(w, node) ==
    IF w.err THEN w
    ELSE IF Throws(w, node) THEN [w EXCEPT !.err = TRUE]
    ELSE LET prev == w.heap[node].prev
             next == w.heap[node].next
             w1 == IF prev = Null
                   THEN [w EXCEPT !.linkedList.head = next]
                   ELSE [w EXCEPT !.heap[prev].next = next]
             w2 == IF next = Null
                   THEN [w1 EXCEPT !.linkedList.tail = prev]
                   ELSE [w1 EXCEPT !.heap[next].prev = prev]
         IN [w2 EXCEPT !.heap[node].next = Null,
                       !.heap[node].prev = Null,
                       !.linkedList.len = @ - 1]

\* LinkedList.size()
LinkedList_size(w) == w.linkedList.len

\* (a slip: the length is not reset)
LinkedList_clear_KeepsLen(w) ==
    [w EXCEPT !.linkedList.head = Null,
              !.linkedList.tail = Null]

\* LinkedList.clear()
LinkedList_clear(w) ==
    [w EXCEPT !.linkedList.head = Null,
              !.linkedList.tail = Null,
              !.linkedList.len = 0]

\* new LinkedList()
LinkedList_new == [head |-> Null, tail |-> Null, len |-> 0]

\* new LRU(limit)
LRU_new(l) ==
    [heap |-> EmptyMap, linkedList |-> LinkedList_new, map |-> EmptyMap,
     limit |-> l, err |-> FALSE]

\* (a slip: the test for a non-empty list is missing)
MustEvict_AlsoWhenEmpty(w) == LinkedList_size(w) >= w.limit

\* (a slip: > for >=)
MustEvict_OnlyAboveLimit(w) ==
    LinkedList_size(w) > w.limit /\ LinkedList_size(w) > 0

\* LRU.put, the test that decides on an eviction: size >= this.limit && size > 0
MustEvict(w) ==
    LinkedList_size(w) >= w.limit /\ LinkedList_size(w) > 0

\* (a slip: the old value is not returned)
PutPresent_ReturnsNull(w, key, value) ==
    LET node == w.map[key]
        w1 == [w EXCEPT !.heap[node].value.v = value]
        w2 == LinkedList_remove(w1, node)
        w3 == LinkedList_add(w2, node)
    IN [w |-> w3, ret |-> Null]

\* (a slip: the node is not moved to the tail)
PutPresent_StaysInPlace(w, key, value) ==
    LET node == w.map[key]
        removed == w.heap[node].value.v
        w1 == [w EXCEPT !.heap[node].value.v = value]
    IN [w |-> w1, ret |-> removed]

\* LRU.put, the branch of a key that is in the map
PutPresent(w, key, value) ==
    LET node == w.map[key]
    IN IF Throws(w, node) THEN [w |-> [w EXCEPT !.err = TRUE], ret |-> Null]
       ELSE LET removed == w.heap[node].value.v
                w1 == [w EXCEPT !.heap[node].value.v = value]
                w2 == LinkedList_remove(w1, node)
                w3 == LinkedList_add(w2, node)
            IN [w |-> w3, ret |-> removed]

\* (a slip: the tail is taken for the least recently used node)
PutAbsent_EvictsTail(w, key, value) ==
    LET node == NewRef(w, key)
        w1 == [w EXCEPT !.heap = (node :> NodeItem([k |-> key, v |-> value])) @@ @]
        evict == MustEvict(w1)
        leastUsedNode == w1.linkedList.tail
        w2 == IF evict THEN LinkedList_remove(w1, leastUsedNode) ELSE w1
        w3 == IF evict /\ ~w2.err
              THEN [w2 EXCEPT !.map = MapDelete(@, w2.heap[leastUsedNode].value.k)]
              ELSE w2
        removed == IF evict /\ ~w2.err
                   THEN w3.heap[leastUsedNode].value.v
                   ELSE Null
        w4 == IF w3.err THEN w3 ELSE [w3 EXCEPT !.map = MapSet(@, key, node)]
        w5 == LinkedList_add(w4, node)
    IN [w |-> w5, ret |-> removed]

\* (a slip: the evicted key stays in the map)
PutAbsent_KeepsMapEntry(w, key, value) ==
    LET node == NewRef(w, key)
        w1 == [w EXCEPT !.heap = (node :> NodeItem([k |-> key, v |-> value])) @@ @]
        evict == MustEvict(w1)
        leastUsedNode == w1.linkedList.head
        w2 == IF evict THEN LinkedList_remove(w1, leastUsedNode) ELSE w1
        removed == IF evict /\ ~w2.err
                   THEN w2.heap[leastUsedNode].value.v
                   ELSE Null
        w4 == IF w2.err THEN w2 ELSE [w2 EXCEPT !.map = MapSet(@, key, node)]
        w5 == LinkedList_add(w4, node)
    IN [w |-> w5, ret |-> removed]

\* LRU.put, the branch of a key that is not in the map
PutAbsent(w, key, value) ==
    LET node == NewRef(w, key)
        w1 == [w EXCEPT !.heap = (node :> NodeItem([k |-> key, v |-> value])) @@ @]
        evict == MustEvict(w1)
        leastUsedNode == w1.linkedList.head
        w2 == IF evict THEN LinkedList_remove(w1, leastUsedNode) ELSE w1
        w3 == IF evict /\ ~w2.err
              THEN [w2 EXCEPT !.map = MapDelete(@, w2.heap[leastUsedNode].value.k)]
              ELSE w2
        removed == IF evict /\ ~w2.err
                   THEN w3.heap[leastUsedNode].value.v
                   ELSE Null
        w4 == IF w3.err THEN w3 ELSE [w3 EXCEPT !.map = MapSet(@, key, node)]
        w5 == LinkedList_add(w4, node)
    IN [w |-> w5, ret |-> removed]

\* LRU.put(key, value)
LRU_put(w, key, value) ==
    IF key \in DOMAIN w.map
    THEN PutPresent(w, key, value)
    ELSE PutAbsent(w, key, value)

\* (a slip: the node is not moved to the tail)
LRU_get_StaysInPlace(w, key) ==
    IF key \notin DOMAIN w.map
    THEN [w |-> w, ret |-> Null]
    ELSE [w |-> w, ret |-> w.heap[w.map[key]].value.v]

\* LRU.get(key)
LRU_get(w, key) ==
    IF key \notin DOMAIN w.map
    THEN [w |-> w, ret |-> Null]
    ELSE LET node == w.map[key]
             w2 == IF node # w.linkedList.tail
                   THEN LinkedList_add(LinkedList_remove(w, node), node)
                   ELSE w
         IN IF w2.err \/ Throws(w2, node)
            THEN [w |-> [w2 EXCEPT !.err = TRUE], ret |-> Null]
            ELSE [w |-> w2, ret |-> w2.heap[node].value.v]

\* (a slip: membership is tested with get, which moves the node)
LRU_has_ByGet(w, key) ==
    [w |-> LRU_get(w, key).w, ret |-> key \in DOMAIN w.map]

\* (a slip: membership is tested by the stored value)
LRU_has_ByValue(w, key) ==
    [w |-> w,
     ret |-> key \in DOMAIN w.map /\ w.heap[w.map[key]].value.v # Null]

\* LRU.has(key)
LRU_has(w, key) == [w |-> w, ret |-> key \in DOMAIN w.map]

\* LRU.clear()
LRU_clear(w) == [LinkedList_clear(w) EXCEPT !.map = EmptyMap]

(***************************************************************************)
(* Garbage collection: an object that cannot be reached from the LRU       *)
(* instance (its list's head and tail, its map's values, and the prev and  *)
(* next fields of what those reach) no longer exists.                      *)
(***************************************************************************)
Roots(w) ==
    ({w.linkedList.head, w.linkedList.tail} \cup {w.map[k] : k \in DOMAIN w.map})
        \cap DOMAIN w.heap

RECURSIVE Reach(_, _)
Reach(w, S) ==
    LET T == (S \cup {w.heap[n].prev : n \in S} \cup {w.heap[n].next : n \in S})
                 \cap DOMAIN w.heap
    IN IF T = S THEN S ELSE Reach(w, T)

Collect(w) ==
    LET live == Reach(w, Roots(w))
    IN [w EXCEPT !.heap = [n \in live |-> w.heap[n]]]

(***************************************************************************)
(* What a caller can observe of the current state.                         *)
(***************************************************************************)
\* The references met by following next from ref, at most fuel of them
RECURSIVE Walk(_, _, _)
Walk(h, ref, fuel) ==
    IF fuel = 0 \/ ref \notin DOMAIN h THEN <<>>
    ELSE <<ref>> \o Walk(h, h[ref].next, fuel - 1)

\* The nodes of the linked list, from head to tail
ListRefs == Walk(heap, linkedList.head, Cardinality(DOMAIN heap))

\* The keys the nodes of the linked list carry, from head (least recently
\* used) to tail (most recently used)
ListKeys == [i \in 1..Len(ListRefs) |-> heap[ListRefs[i]].value.k]

\* The key of the tail node, Null for an empty list
MostRecentKey ==
    IF linkedList.tail \in DOMAIN heap THEN heap[linkedList.tail].value.k ELSE Null

\* The number of map entries
MapSize == Cardinality(DOMAIN map)

\* The value stored under a present key, Null for any other key
ValueOf(key) ==
    IF key \in DOMAIN map /\ map[key] \in DOMAIN heap
    THEN heap[map[key]].value.v
    ELSE Null

(***************************************************************************)
(* The history of the calls since construction or the last clear().        *)
(***************************************************************************)
RECURSIVE Without(_, _)
Without(s, key) ==
    IF s = <<>> THEN <<>>
    ELSE IF Head(s) = key THEN Without(Tail(s), key)
    ELSE <<Head(s)>> \o Without(Tail(s), key)

\* key becomes the most recently touched key
Touch(s, key) == Append(Without(s, key), key)

\* The keys of s, as a set
KeysOf(s) == {s[i] : i \in 1..Len(s)}

\* The first key of s that is in the set present, Null if there is none
Oldest(s, present) ==
    IF KeysOf(s) \cap present = {} THEN Null
    ELSE s[CHOOSE i \in 1..Len(s) :
               /\ s[i] \in present
               /\ \A j \in 1..(i - 1) : s[j] \notin present]

\* The record of a call: its name and arguments, whether it threw, and what
\* held when it was made: hit (the key was in the map), before (the number of
\* map entries) and oldest (the present key touched longest ago)
Call(name, key, value, threw) ==
    [name |-> name, key |-> key, value |-> value, threw |-> threw,
     hit |-> key \in DOMAIN map,
     before |-> MapSize,
     oldest |-> Oldest(touchOrder, DOMAIN map)]

\* The state a call leaves behind
Becomes(w) ==
    LET c == Collect(w)
    IN /\ heap' = c.heap
       /\ linkedList' = c.linkedList
       /\ map' = c.map
       /\ limit' = c.limit
       /\ UNCHANGED <<transformVars, curveVars, projectVars, pointerVars>>

\* No call of the four-point solver has been made
TransformIdle ==
    /\ transforms = <<>>
    /\ usedCache = <<>>
    /\ applied = <<>>
    /\ out = <<>>
    /\ alone = <<>>

\* No call of curve.ts has been made
NoCall == [fn |-> "none", ret |-> 0, threw |-> FALSE, n |-> 0]

\* No call of curve.ts is made, and nothing is prepared for one
CurveIdle ==
    /\ vec = <<>>
    /\ outArr = <<>>
    /\ rootsArr = <<>>
    /\ input = <<>>
    /\ call = NoCall

\* No call of quadraticProjectAt or cubicProjectAt runs or has run
NoProjection ==
    [pc |-> "idle", fn |-> "none", pt |-> <<0, 0>>, pdSquared |-> <<1, 0>>,
     interval |-> <<0, 1>>, i |-> 0, threw |-> FALSE, ret |-> <<0, 1>>]

ProjectIdle == proj = NoProjection

\* No element has markers, and preparePointerTransformer has not been called
PointerIdle ==
    /\ markers = <<>>
    /\ saved = <<>>
    /\ prepared = <<>>

Init ==
    /\ TransformIdle
    /\ CurveIdle
    /\ ProjectIdle
    /\ PointerIdle
    /\ limit \in Limits
    /\ heap = LRU_new(limit).heap
    /\ linkedList = LRU_new(limit).linkedList
    /\ map = LRU_new(limit).map
    /\ lastOp = [name |-> "new", key |-> Null, value |-> Null, threw |-> FALSE,
                 hit |-> FALSE, before |-> 0, oldest |-> Null]
    /\ ret = Null
    /\ found = FALSE
    /\ touchOrder = <<>>

Has(key) ==
    LET r == LRU_has(State, key)
    IN /\ Becomes(r.w)
       /\ lastOp' = Call("has", key, Null, r.w.err)
       /\ ret' = Null
       /\ found' = r.ret
       /\ UNCHANGED touchOrder

Put(key, value) ==
    LET r == LRU_put(State, key, value)
    IN /\ Becomes(r.w)
       /\ lastOp' = Call("put", key, value, r.w.err)
       /\ ret' = IF r.w.err THEN Null ELSE r.ret
       /\ found' = FALSE
       /\ touchOrder' = Touch(touchOrder, key)

Get(key) ==
    LET r == LRU_get(State, key)
    IN /\ Becomes(r.w)
       /\ lastOp' = Call("get", key, Null, r.w.err)
       /\ ret' = IF r.w.err THEN Null ELSE r.ret
       /\ found' = FALSE
       /\ touchOrder' = IF key \in DOMAIN map THEN Touch(touchOrder, key) ELSE touchOrder

Clear ==
    /\ Becomes(LRU_clear(State))
    /\ lastOp' = Call("clear", Null, Null, FALSE)
    /\ ret' = Null
    /\ found' = FALSE
    /\ touchOrder' = <<>>

Next ==
    \/ \E key \in Keys : Has(key)
    \/ \E key \in Keys, value \in Values : Put(key, value)
    \/ \E key \in Keys : Get(key)
    \/ Clear

Spec == Init /\ [][Next]_vars

\* An LRU of limit 0 on which no operation has been called
LRUIdle ==
    /\ limit = 0
    /\ heap = LRU_new(limit).heap
    /\ linkedList = LRU_new(limit).linkedList
    /\ map = LRU_new(limit).map
    /\ lastOp = [name |-> "new", key |-> Null, value |-> Null, threw |-> FALSE,
                 hit |-> FALSE, before |-> 0, oldest |-> Null]
    /\ ret = Null
    /\ found = FALSE
    /\ touchOrder = <<>>

(***************************************************************************)
(* Numbers.  A JavaScript number is modelled by the real number it stands  *)
(* for, computed exactly: a fraction <<n, d>> in lowest terms with d > 0,  *)
(* or one of <<1, 0>> (Infinity), <<-1, 0>> (-Infinity) and <<0, 0>>       *)
(* (NaN).  Where the code computes with whole numbers only, the model uses *)
(* the integers themselves.  There is no negative zero: a number divided   *)
(* by zero gives the infinity of the sign of the number.                   *)
(***************************************************************************)
Abs(x) == IF x < 0 THEN -x ELSE x

Sgn(x) == IF x < 0 THEN -1 ELSE IF x > 0 THEN 1 ELSE 0

RECURSIVE Gcd(_, _)
Gcd(x, y) == IF y = 0 THEN x ELSE Gcd(y, x % y)

\* The number n / d
Frac(n, d) ==
    IF d = 0 THEN <<Sgn(n), 0>>
    ELSE LET g == Gcd(Abs(n), Abs(d))
         IN <<Sgn(d) * (n \div g), Abs(d) \div g>>

Num(k) == <<k, 1>>

NaN == <<0, 0>>

IsNaN(x) == x = NaN

IsFinite(x) == x[2] # 0

\* x + y
RAdd(x, y) ==
    IF IsFinite(x) /\ IsFinite(y)
    THEN LET g == Gcd(x[2], y[2])
         IN Frac(x[1] * (y[2] \div g) + y[1] * (x[2] \div g), (x[2] \div g) * y[2])
    ELSE IF IsNaN(x) \/ IsNaN(y) THEN NaN
    ELSE IF IsFinite(x) THEN y
    ELSE IF IsFinite(y) THEN x
    ELSE IF x = y THEN x ELSE NaN

\* -x
RNeg(x) == <<-x[1], x[2]>>

\* x - y
RSub(x, y) == RAdd(x, RNeg(y))

\* x * y
RMul(x, y) ==
    IF IsFinite(x) /\ IsFinite(y)
    THEN LET g1 == Gcd(Abs(x[1]), y[2])
             g2 == Gcd(Abs(y[1]), x[2])
         IN Frac((x[1] \div g1) * (y[1] \div g2), (x[2] \div g2) * (y[2] \div g1))
    ELSE IF IsNaN(x) \/ IsNaN(y) \/ x[1] = 0 \/ y[1] = 0 THEN NaN
    ELSE <<Sgn(x[1]) * Sgn(y[1]), 0>>

\* x / y
RDiv(x, y) ==
    IF IsFinite(y) /\ y[1] # 0 THEN RMul(x, <<Sgn(y[1]) * y[2], Abs(y[1])>>)
    ELSE IF IsNaN(x) \/ IsNaN(y) THEN NaN
    ELSE IF IsFinite(y) THEN <<Sgn(x[1]), 0>>
    ELSE IF IsFinite(x) THEN Num(0) ELSE NaN

\* x < y and x <= y; a comparison with NaN is false
RLt(x, y) ==
    IF IsNaN(x) \/ IsNaN(y) THEN FALSE
    ELSE IF IsFinite(x) /\ IsFinite(y)
         THEN IF x[1] \div x[2] # y[1] \div y[2]
              THEN x[1] \div x[2] < y[1] \div y[2]
              ELSE LET g == Gcd(x[2], y[2])
                   IN (x[1] % x[2]) * (y[2] \div g) < (y[1] % y[2]) * (x[2] \div g)
    ELSE IF IsFinite(x) THEN y[1] > 0
    ELSE IF IsFinite(y) THEN x[1] < 0
    ELSE x[1] < y[1]

RLe(x, y) == ~IsNaN(x) /\ ~IsNaN(y) /\ (x = y \/ RLt(x, y))

(***************************************************************************)
(* fourPointsTransform.ts: determinate and buildTransformer.               *)
(***************************************************************************)
\* The machine that runs buildTransformer makes at most 2 ^ RunDepth steps
RunDepth == 13

\* 1 << k
Shl(k) == 2 ^ k

\* mask & (1 << k) is not 0
BitSet(mask, k) == (mask \div Shl(k)) % 2 = 1

\* mask | (1 << k)
BitOr(mask, k) == IF BitSet(mask, k) THEN mask ELSE mask + Shl(k)

\* Math.round(Math.log(x) / LN2), for x >= 1
RoundLog2(x) ==
    CHOOSE k \in 0..31 : Shl(2 * k) <= 2 * x * x /\ 2 * x * x < Shl(2 * k + 2)

\* The sequence of n copies of x
RECURSIVE Repeat(_, _)
Repeat(n, x) ==
    IF n = 0 THEN <<>>
    ELSE IF n = 1 THEN <<x>>
    ELSE Repeat(n \div 2, x) \o Repeat(n - n \div 2, x)

\* new Map<string, number>(): a Map is modelled by what it holds under each key
\* `${rowMask}-${colMask}` of a matrix of fullRank rows, at [rowMask + 1] and
\* there at [colMask + 1]: <<value>> when the key has a value, <<>> when it
\* has none
NewDetCache(fullRank) == Repeat(Shl(fullRank), Repeat(Shl(fullRank), <<>>))

\* detCache.has, detCache.get and detCache.set
CacheHas(detCache, rowMask, colMask) == detCache[rowMask + 1][colMask + 1] # <<>>

CacheGet(detCache, rowMask, colMask) == detCache[rowMask + 1][colMask + 1][1]

CacheSet(detCache, rowMask, colMask, value) ==
    [detCache EXCEPT ![rowMask + 1][colMask + 1] = <<value>>]

\* subRowStart = rowStart + 1, without the loop that skips the masked rows
SkipMasked_None(rowMask, subRowStart) == subRowStart

\* while ((rowMask & (1 << subRowStart))) subRowStart += 1
RECURSIVE SkipMasked(_, _)
SkipMasked(rowMask, subRowStart) ==
    IF BitSet(rowMask, subRowStart)
    THEN SkipMasked(rowMask, subRowStart + 1)
    ELSE subRowStart

(***************************************************************************)
(* determinate calls itself to a depth of eight, inside a loop over the    *)
(* columns, and buildTransformer calls it 65 times with one cache.  The    *)
(* model runs the two functions as the machine that executes them.  Its    *)
(* state m holds the stack of the activations of determinate, each with    *)
(* the arguments of the call and the loop's variables j, colLocalIdx and   *)
(* sum; the cache; the value that the call that ended last returned; and   *)
(* the variables of buildTransformer: det, vh and the number n = 8 * i + j *)
(* of the pass of its loops (-1 before they start).                        *)
(***************************************************************************)

\* The matrix mA of buildTransformer: lines 61-71
MatrixOf(src, dest) ==
    LET Row(k) == \* k = 1..8
            LET p == (k + 1) \div 2
                x == src[2 * p - 1]
                y == src[2 * p]
            IN IF k % 2 = 1
               THEN <<x, y, 1, 0, 0, 0, -dest[k] * x, -dest[k] * y>>
               ELSE <<0, 0, 0, x, y, 1, -dest[k] * x, -dest[k] * y>>
    IN <<Row(1), Row(2), Row(3), Row(4), Row(5), Row(6), Row(7), Row(8)>>

\* if (colMask & (1 << j)) continue: the first column from j on that the loop
\* does not skip, fullRank when there is none
RECURSIVE NextCol(_, _, _)
NextCol(fullRank, colMask, j) ==
    IF j < fullRank /\ BitSet(colMask, j)
    THEN NextCol(fullRank, colMask, j + 1)
    ELSE j

\* A call of determinate returns value: to buildTransformer when no call is
\* left on the stack, and else into line 38-44 of the call that made it
Return(rows, m, value) ==
    LET top == Len(m.stack)
        f == m.stack[top]
    IN IF top = 0
       THEN [m EXCEPT !.val = value, !.returned = TRUE]
       ELSE [m EXCEPT !.stack[top].sum =
                          @ + (IF f.colLocalIdx % 2 = 1 THEN -1 ELSE 1)
                                  * rows[f.rowStart + 1][f.j + 1] * value,
                      !.stack[top].colLocalIdx = @ + 1,
                      !.stack[top].j = NextCol(Len(rows), f.colMask, f.j + 1)]

\* A call of determinate up to the first pass of its loop: lines 18-36.
\* Rows and columns are numbered from 0 as in the code; rows[i + 1][j + 1] is
\* the code's rows[i][j].
Enter(rows, m, rank, rowStart, rowMask, colMask) ==
    IF CacheHas(m.cache, rowMask, colMask)
    THEN Return(rows, m, CacheGet(m.cache, rowMask, colMask))
    ELSE IF rank = 1
    THEN LET colStart == RoundLog2((Shl(Len(rows)) - 1) - colMask)
         IN Return(rows, m, rows[rowStart + 1][colStart + 1])
    ELSE [m EXCEPT !.stack = Append(@, [rank |-> rank, rowStart |-> rowStart,
                                        rowMask |-> rowMask, colMask |-> colMask,
                                        j |-> NextCol(Len(rows), colMask, 0),
                                        colLocalIdx |-> 0, sum |-> 0])]

\* The next step of the call of determinate on top of the stack: the call of
\* line 39 for the column j, or lines 45-46 when the loop has ended
determinate(rows, m) ==
    LET top == Len(m.stack)
        f == m.stack[top]
    IN IF f.j >= Len(rows)
       THEN Return(rows,
                   [m EXCEPT !.stack = SubSeq(@, 1, top - 1),
                             !.cache = CacheSet(@, f.rowMask, f.colMask, f.sum)],
                   f.sum)
       ELSE Enter(rows, m, f.rank - 1, SkipMasked(f.rowMask, f.rowStart + 1),
                  BitOr(f.rowMask, f.rowStart), BitOr(f.colMask, f.j))

\* Solve without the sign (-1)^(i+j) of the cofactor
Solve_SameSign(mA, dest, m) ==
    LET i == m.n \div 8
        j == m.n % 8
    IN IF m.n = -1
       THEN \* const det = determinate(...); if (det === 0) return
            IF m.val = 0
            THEN [m EXCEPT !.det = 0, !.vh = <<>>, !.done = TRUE]
            ELSE [m EXCEPT !.det = m.val, !.n = 0, !.returned = FALSE]
       ELSE IF m.returned
       THEN \* the call of line 85 has returned m.val
            [m EXCEPT !.vh[j + 1] =
                          RAdd(@, RMul(RDiv(Num(m.val),
                                            Num(m.det)),
                                       Num(dest[i + 1]))),
                      !.n = @ + 1,
                      !.returned = FALSE]
       ELSE IF m.n >= 64
       THEN [m EXCEPT !.done = TRUE]
       ELSE Enter(mA, m, 7, IF i = 0 THEN 1 ELSE 0, Shl(i), Shl(j))

\* The next step of buildTransformer while no call of determinate is active:
\* lines 73-88
Solve(mA, dest, m) ==
    LET i == m.n \div 8
        j == m.n % 8
    IN IF m.n = -1
       THEN \* const det = determinate(...); if (det === 0) return
            IF m.val = 0
            THEN [m EXCEPT !.det = 0, !.vh = <<>>, !.done = TRUE]
            ELSE [m EXCEPT !.det = m.val, !.n = 0, !.returned = FALSE]
       ELSE IF m.returned
       THEN \* the call of line 85 has returned m.val
            [m EXCEPT !.vh[j + 1] =
                          RAdd(@, RMul(RDiv(Num((IF (i + j) % 2 = 1 THEN -1 ELSE 1)
                                                    * m.val),
                                            Num(m.det)),
                                       Num(dest[i + 1]))),
                      !.n = @ + 1,
                      !.returned = FALSE]
       ELSE IF m.n >= 64
       THEN [m EXCEPT !.done = TRUE]
       ELSE Enter(mA, m, 7, IF i = 0 THEN 1 ELSE 0, Shl(i), Shl(j))

\* The machine run until buildTransformer returns, for at most 2 ^ k steps
RECURSIVE Run(_, _, _, _)
Run(mA, dest, k, m) ==
    IF m.done THEN m
    ELSE IF k > 0 THEN Run(mA, dest, k - 1, Run(mA, dest, k - 1, m))
    ELSE IF m.stack = <<>> THEN Solve(mA, dest, m)
    ELSE determinate(mA, m)

\* buildTransformer(src, dest), given the Map that line 72 creates: the
\* coefficients vh of the function it returns (<<>> when it returns nothing)
\* and the cache as the call leaves it
buildTransformer(src, dest, detCache) ==
    LET mA == MatrixOf(src, dest)
        m == Run(mA, dest, RunDepth,
                 Enter(mA, [stack |-> <<>>, cache |-> detCache, val |-> 0,
                            returned |-> FALSE, det |-> 0, n |-> -1,
                            vh |-> Repeat(8, Num(0)), done |-> FALSE],
                       8, 0, 0, 0))
    IN [vh |-> m.vh, cache |-> m.cache, done |-> m.done]

\* The function that buildTransformer returns, called with (out, x, y): the
\* pair written to out
Transform(vh, srcPointX, srcPointY) ==
    LET pk == RAdd(RAdd(RMul(srcPointX, vh[7]), RMul(srcPointY, vh[8])), Num(1))
    IN <<RDiv(RAdd(RAdd(RMul(srcPointX, vh[1]), RMul(srcPointY, vh[2])), vh[3]), pk),
         RDiv(RAdd(RAdd(RMul(srcPointX, vh[4]), RMul(srcPointY, vh[5])), vh[6]), pk)>>

(***************************************************************************)
(* The calls of buildTransformer and of the functions it returned.         *)
(***************************************************************************)
\* The calls buildTransformer(src, dest) explored, as <<src, dest>>: the four
\* of fourPointsTransform.spec.ts (scale, translate, skew, rotate), a dest
\* with three points on a line, a src with three points on a line that does
\* not pass through the origin, and one whose line does
Quads ==
    {<< <<0, 0, 10, 0, 10, 10, 0, 10>>, <<0, 0, 5, 0, 5, 5, 0, 5>> >>,
     << <<0, 0, 10, 0, 10, 10, 0, 10>>, <<10, 10, 20, 10, 20, 20, 10, 20>> >>,
     << <<0, 0, 10, 0, 10, 10, 0, 10>>, <<0, 0, 10, 0, 20, 10, 10, 10>> >>,
     << <<0, 0, 20, 0, 20, 10, 0, 10>>, <<0, 0, 0, 20, -10, 20, -10, 0>> >>,
     << <<0, 0, 1, 0, 1, 1, 0, 1>>, <<0, 0, 1, 0, 2, 0, 0, 1>> >>,
     << <<0, 1, 1, 1, 2, 1, 0, 0>>, <<0, 0, 1, 0, 1, 1, 0, 1>> >>,
     << <<0, 0, 1, 0, 2, 0, 0, 1>>, <<0, 0, 1, 0, 1, 1, 0, 1>> >>}

\* The points (x, y) given to a returned function besides the points of its src
Samples == {<<5, 5>>, <<1, 2>>}

\* A behaviour calls buildTransformer at most so many times
MaxTransforms == 2

\* The i-th point of a quadrilateral, i in 1..4
Corner(quad, i) == <<quad[2 * i - 1], quad[2 * i]>>

Corners(quad) == {Corner(quad, i) : i \in 1..4}

\* CacheOfCall with one Map shared by all the calls
CacheOfCall_Kept(left) == IF left = <<>> THEN NewDetCache(8) ELSE left

\* const detCache = new Map(): whatever Map the call before has left behind,
\* a call works on a new one
CacheOfCall(left) == NewDetCache(8)

TransformInit ==
    /\ LRUIdle
    /\ CurveIdle
    /\ ProjectIdle
    /\ PointerIdle
    /\ transforms = <<>>
    /\ usedCache = <<>>
    /\ applied = <<>>
    /\ out = <<>>
    /\ alone = [q \in Quads |-> buildTransformer(q[1], q[2], NewDetCache(8)).vh]

\* A call buildTransformer(src, dest).  A behaviour makes its calls of
\* buildTransformer before it calls the functions they returned:
\* buildTransformer reads nothing that such a call writes.
BuildTransformer(src, dest) ==
    /\ Len(transforms) < MaxTransforms
    /\ applied = <<>>
    /\ \E r \in {buildTransformer(src, dest, CacheOfCall(usedCache))} :
          /\ r.done
          /\ transforms' = Append(transforms,
                                  [src |-> src, dest |-> dest, vh |-> r.vh])
          /\ usedCache' = r.cache
    /\ UNCHANGED <<applied, out, alone, lruVars, curveVars, projectVars, pointerVars>>

\* A call transform(out, x, y) of the function that call k returned
ApplyTransform(k, x, y) ==
    /\ transforms[k].vh # <<>>
    /\ applied' = <<k, x, y>>
    /\ out' = Transform(transforms[k].vh, Num(x), Num(y))
    /\ UNCHANGED <<transforms, usedCache, alone, lruVars, curveVars, projectVars,
                   pointerVars>>

TransformNext ==
    \/ \E q \in Quads : BuildTransformer(q[1], q[2])
    \/ \E k \in 1..Len(transforms) :
          \E p \in Corners(transforms[k].src) \cup Samples :
             ApplyTransform(k, p[1], p[2])

TransformSpec == TransformInit /\ [][TransformNext]_vars

(***************************************************************************)
(* curve.ts and the functions of vector.ts that it calls.                  *)
(*                                                                         *)
(* A Vec2 is an object on the heap vec: a reference is a number of         *)
(* 1..Len(vec) and vec[ref] = <<x, y>>.  An Array<Vec2> is a sequence of   *)
(* references, an Array<number> a sequence of numbers.  A function that    *)
(* works on the heap is an operator from the heap before the call to the   *)
(* record [vec, ret, threw]: the heap after it, the reference it returns   *)
(* and whether it threw an Error.                                          *)
(*                                                                         *)
(* Math.sqrt, Math.pow(x, 1 / 3), Math.acos, Math.cos and Math.sin are     *)
(* rounded: the roots to MantissaBits binary digits unless the result is a *)
(* fraction (then it is exact), angles, cosines and sines to multiples of  *)
(* 1 / FixOne, from tables.  All other arithmetic is exact.                *)
(***************************************************************************)
\* const EPSILON = 1e-8
EPSILON == Frac(1, 10 ^ 8)

isAroundZero(val) == RLt(RNeg(EPSILON), val) /\ RLt(val, EPSILON)

isNotAroundZero(val) == RLt(EPSILON, val) \/ RLt(val, RNeg(EPSILON))

\* isInRange(min, max, val) of vector.ts: min <= val <= max, both ends included
isInRange(min, max, val) == RLe(min, val) /\ RLe(val, max)

\* ---- Math ----
\* The binary digits that a rounded result of Math.sqrt and Math.pow keeps
MantissaBits == 10

\* The largest k of lo..hi with k * k <= n, where lo * lo <= n
RECURSIVE ISqrtIn(_, _, _)
ISqrtIn(n, lo, hi) ==
    IF lo = hi THEN lo
    ELSE LET mid == (lo + hi + 1) \div 2
         IN IF mid * mid <= n THEN ISqrtIn(n, mid, hi) ELSE ISqrtIn(n, lo, mid - 1)

ISqrt(n) == ISqrtIn(n, 0, IF n < 46340 THEN n ELSE 46340)

\* The largest k of lo..hi with k * k * k <= n, where lo * lo * lo <= n
RECURSIVE ICbrtIn(_, _, _)
ICbrtIn(n, lo, hi) ==
    IF lo = hi THEN lo
    ELSE LET mid == (lo + hi + 1) \div 2
         IN IF mid * mid * mid <= n THEN ICbrtIn(n, mid, hi) ELSE ICbrtIn(n, lo, mid - 1)

ICbrt(n) == ICbrtIn(n, 0, IF n < 1290 THEN n ELSE 1290)

\* <<y, e + k>> with y = x * base ^ k and lo <= y < lo * base, for a finite
\* x > 0
RECURSIVE Normalised(_, _, _, _)
Normalised(x, base, lo, e) ==
    IF RLt(x, Num(lo)) THEN Normalised(RMul(x, Num(base)), base, lo, e + 1)
    ELSE IF RLe(Num(lo * base), x) THEN Normalised(RDiv(x, Num(base)), base, lo, e - 1)
    ELSE <<x, e>>

\* k / 2 ^ e
Scaled(k, e) == IF e >= 0 THEN Frac(k, 2 ^ e) ELSE Num(k * 2 ^ (-e))

\* Math.sqrt(x)
Sqrt(x) ==
    IF IsNaN(x) \/ x[1] < 0 THEN NaN
    ELSE IF ~IsFinite(x) \/ x[1] = 0 THEN x
    ELSE IF ISqrt(x[1]) * ISqrt(x[1]) = x[1] /\ ISqrt(x[2]) * ISqrt(x[2]) = x[2]
         THEN <<ISqrt(x[1]), ISqrt(x[2])>>
    ELSE LET m == Normalised(x, 4, 4 ^ (MantissaBits - 1), 0)
         IN Scaled(ISqrt(m[1][1] \div m[1][2]), m[2])

\* Math.pow(x, 1 / 3) for x >= 0 or NaN
Cbrt(x) ==
    IF IsNaN(x) \/ x[1] < 0 THEN NaN
    ELSE IF ~IsFinite(x) \/ x[1] = 0 THEN x
    ELSE IF ICbrt(x[1]) * ICbrt(x[1]) * ICbrt(x[1]) = x[1]
            /\ ICbrt(x[2]) * ICbrt(x[2]) * ICbrt(x[2]) = x[2]
         THEN <<ICbrt(x[1]), ICbrt(x[2])>>
    ELSE LET m == Normalised(x, 8, 8 ^ (MantissaBits - 1), 0)
         IN Scaled(ICbrt(m[1][1] \div m[1][2]), m[2])

\* Angles, cosines and sines are multiples of 1 / FixOne
FixOne == 2 ^ 12

\* F(x), with x computed before F is
Let(x, F(_)) == CHOOSE r \in {F(v) : v \in {x}} : TRUE

\* The number x, rounded down to a multiple of 1 / FixOne when it is finite
Fix(x) ==
    IF ~IsFinite(x) THEN x
    ELSE Let(RMul(x, Num(FixOne)), LAMBDA y : Frac(y[1] \div y[2], FixOne))

\* Math.PI and Math.PI / 2
Pi == Frac(12868, FixOne)

HalfPi == Frac(6434, FixOne)

\* The step of the tables of cosines and sines
TableStep == Frac(201, FixOne)

\* FixOne * cos(i * TableStep) for i = 0..33, up to a little above HalfPi
CosTable ==
    <<4096, 4091, 4076, 4052, 4017, 3973, 3920, 3857, 3784, 3703, 3613, 3514,
      3406, 3290, 3167, 3036, 2897, 2751, 2599, 2441, 2277, 2107, 1932, 1753,
      1569, 1381, 1191, 997, 801, 603, 403, 203, 2, -199>>

\* FixOne * sin(i * TableStep) for i = 0..17, up to a little above Pi / 4
SinTable ==
    <<0, 201, 401, 601, 799, 995, 1189, 1379, 1567, 1751, 1930, 2105, 2275,
      2439, 2598, 2750, 2896, 3034>>

\* The cosine of x for 0 <= x <= HalfPi: CosTable, and a straight line between
\* two entries
CosOf(x) ==
    Let(RDiv(x, TableStep), LAMBDA pos :
    Let(pos[1] \div pos[2], LAMBDA i :
        Fix(RDiv(RAdd(Num(CosTable[i + 1]),
                      RMul(RSub(pos, Num(i)),
                           Num(CosTable[i + 2] - CosTable[i + 1]))),
                 Num(FixOne)))))

\* The angle of 0..Pi / 4 whose sine is x, for 0 <= x <= sin(Pi / 4): SinTable,
\* and a straight line between two entries
AsinOf(x) ==
    Let(RMul(x, Num(FixOne)), LAMBDA v :
    Let(CHOOSE i \in 0..16 :
            /\ RLe(Num(SinTable[i + 1]), v)
            /\ i = 16 \/ RLt(v, Num(SinTable[i + 2])), LAMBDA i :
        Fix(RMul(RAdd(Num(i), RDiv(RSub(v, Num(SinTable[i + 1])),
                                   Num(SinTable[i + 2] - SinTable[i + 1]))),
                 TableStep))))

\* x less whole turns, as y with -Pi <= y < Pi
Reduced(x) ==
    Let(RDiv(RAdd(x, Pi), RMul(Num(2), Pi)), LAMBDA turns :
        RSub(x, RMul(Num(turns[1] \div turns[2]), RMul(Num(2), Pi))))

\* Math.cos(x)
Cos(x) ==
    IF ~IsFinite(x) THEN NaN
    ELSE Let(Reduced(x), LAMBDA y :
         Let(IF y[1] < 0 THEN RNeg(y) ELSE y, LAMBDA z :
             IF RLe(z, HalfPi) THEN CosOf(z) ELSE RNeg(CosOf(RSub(Pi, z)))))

\* Math.sin(x)
Sin(x) == Cos(RSub(x, HalfPi))

\* Math.acos(x), as 2 asin(sqrt((1 - x) / 2)) for x > 0
Acos(x) ==
    IF IsNaN(x) \/ RLt(x, Num(-1)) \/ RLt(Num(1), x) THEN NaN
    ELSE IF x = Num(0) THEN HalfPi
    ELSE Let(IF x[1] < 0 THEN RNeg(x) ELSE x, LAMBDA y :
         Let(Sqrt(RDiv(RSub(Num(1), y), Num(2))), LAMBDA s :
         Let(RMul(Num(2), AsinOf(s)), LAMBDA a :
             IF x[1] < 0 THEN RSub(Pi, a) ELSE a)))

\* ---- vector.ts ----
\* What a function returns that has not thrown (so far)
Returned(h, ref) == [vec |-> h, ret |-> ref, threw |-> FALSE]

\* What a function leaves that throws an Error
Thrown(h) == [vec |-> h, ret |-> 0, threw |-> TRUE]

\* create(): a new Vec2 [0, 0]
create(h) == Returned(Append(h, <<Num(0), Num(0)>>), Len(h) + 1)

\* linearInterpolation that writes the result to v1 instead of out
linearInterpolation_IntoFirst(h, o, v1, v2, t) ==
    IF ~isInRange(Num(0), Num(1), t) THEN Thrown(h)
    ELSE LET x == RAdd(RMul(RSub(Num(1), t), h[v1][1]), RMul(t, h[v2][1]))
             y == RAdd(RMul(RSub(Num(1), t), h[v1][2]), RMul(t, h[v2][2]))
         IN Returned([h EXCEPT ![v1] = <<x, y>>], o)

\* linearInterpolation(out, v1, v2, t)
linearInterpolation(h, o, v1, v2, t) ==
    IF ~isInRange(Num(0), Num(1), t) THEN Thrown(h)
    ELSE LET x == RAdd(RMul(RSub(Num(1), t), h[v1][1]), RMul(t, h[v2][1]))
             y == RAdd(RMul(RSub(Num(1), t), h[v1][2]), RMul(t, h[v2][2]))
         IN Returned([h EXCEPT ![o] = <<x, y>>], o)

\* vLinearInterpolation(v1, v1, v2, t): the result written into v1, no new vector
vLinearInterpolation_InPlace(r, v1, v2, t) ==
    IF r.threw THEN r
    ELSE linearInterpolation(r.vec, v1, v1, v2, t)

\* vLinearInterpolation(vCreate(), v1, v2, t), after the calls that left r
vLinearInterpolation(r, v1, v2, t) ==
    IF r.threw THEN r
    ELSE linearInterpolation(create(r.vec).vec, create(r.vec).ret, v1, v2, t)

\* a[i] = x for a JavaScript array a of length i at least (i counts from 0)
SetAt(a, i, x) == IF i < Len(a) THEN [a EXCEPT ![i + 1] = x] ELSE Append(a, x)

\* ---- curve.ts: quadratic ----
\* if (t <= 0 || t >= 1), the ends of the interval refused too
OutOfInterval_Closed(t) == RLe(t, Num(0)) \/ RLe(Num(1), t)

\* if (t < 0 || t > 1)
OutOfInterval(t) == RLt(t, Num(0)) \/ RLt(Num(1), t)

quadraticAt(h, v0, v1, v2, t) ==
    IF OutOfInterval(t) THEN Thrown(h)
    ELSE LET v01 == vLinearInterpolation(Returned(h, 0), v0, v1, t)
             v12 == vLinearInterpolation(v01, v1, v2, t)
         IN vLinearInterpolation(v12, v01.ret, v12.ret, t)

quadraticDerivativeAt(h, v0, v1, v2, t) ==
    IF OutOfInterval(t) THEN Thrown(h)
    ELSE LET mt == RSub(Num(1), t)
             D(k) == RMul(Num(2), RAdd(RMul(mt, RSub(h[v1][k], h[v0][k])),
                                       RMul(t, RSub(h[v2][k], h[v1][k]))))
             o == create(h)
         IN Returned([o.vec EXCEPT ![o.ret] = <<D(1), D(2)>>], o.ret)

\* roots[n++] = t without the test of t
Keep_Unchecked(r, t) == [roots |-> SetAt(r.roots, r.n, t), n |-> r.n + 1]

\* if (t >= 0 && t <= 1) { roots[n++] = t; }, after the statements that left
\* r = [roots, n]
Keep(r, t) ==
    IF RLe(Num(0), t) /\ RLe(t, Num(1))
    THEN [roots |-> SetAt(r.roots, r.n, t), n |-> r.n + 1]
    ELSE r

\* quadraticRootAt that reports the root with - sqrt(disc) first
quadraticRootAt_MinusFirst(p0, p1, p2, val, roots) ==
    LET a == RAdd(RSub(p0, RMul(Num(2), p1)), p2)
        b == RMul(Num(2), RSub(p1, p0))
        c == RSub(p0, val)
        r0 == [roots |-> roots, n |-> 0]
    IN IF isAroundZero(a)
       THEN IF isNotAroundZero(b) THEN Keep(r0, RDiv(RNeg(c), b)) ELSE r0
       ELSE LET disc == RSub(RMul(b, b), RMul(RMul(Num(4), a), c))
            IN IF isAroundZero(disc)
               THEN Keep(r0, RDiv(RNeg(b), RMul(Num(2), a)))
               ELSE IF RLt(Num(0), disc)
               THEN LET discSqrt == Sqrt(disc)
                        t1 == RDiv(RAdd(RNeg(b), discSqrt), RMul(Num(2), a))
                        t2 == RDiv(RSub(RNeg(b), discSqrt), RMul(Num(2), a))
                    IN Keep(Keep(r0, t2), t1)
               ELSE r0

quadraticRootAt(p0, p1, p2, val, roots) ==
    LET a == RAdd(RSub(p0, RMul(Num(2), p1)), p2)
        b == RMul(Num(2), RSub(p1, p0))
        c == RSub(p0, val)
        r0 == [roots |-> roots, n |-> 0]
    IN IF isAroundZero(a)
       THEN IF isNotAroundZero(b) THEN Keep(r0, RDiv(RNeg(c), b)) ELSE r0
       ELSE LET disc == RSub(RMul(b, b), RMul(RMul(Num(4), a), c))
            IN IF isAroundZero(disc)
               THEN Keep(r0, RDiv(RNeg(b), RMul(Num(2), a)))
               ELSE IF RLt(Num(0), disc)
               THEN LET discSqrt == Sqrt(disc)
                        t1 == RDiv(RAdd(RNeg(b), discSqrt), RMul(Num(2), a))
                        t2 == RDiv(RSub(RNeg(b), discSqrt), RMul(Num(2), a))
                    IN Keep(Keep(r0, t1), t2)
               ELSE r0

\* quadraticSubdivide(v0, v1, v2, t, out): [vec, out, threw]
quadraticSubdivide(h, v0, v1, v2, t, o) ==
    IF OutOfInterval(t) THEN [vec |-> h, out |-> o, threw |-> TRUE]
    ELSE LET v01 == vLinearInterpolation(Returned(h, 0), v0, v1, t)
             v12 == vLinearInterpolation(v01, v1, v2, t)
             v012 == vLinearInterpolation(v12, v01.ret, v12.ret, t)
         IN IF v012.threw THEN [vec |-> v012.vec, out |-> o, threw |-> TRUE]
            ELSE [vec |-> v012.vec,
                  out |-> SetAt(SetAt(SetAt(SetAt(SetAt(SetAt(o,
                              0, v0), 1, v01.ret), 2, v012.ret),
                              3, v012.ret), 4, v12.ret), 5, v2),
                  threw |-> FALSE]

\* ---- curve.ts: cubic ----
cubicAt(h, v0, v1, v2, v3, t) ==
    IF OutOfInterval(t) THEN Thrown(h)
    ELSE LET v01 == vLinearInterpolation(Returned(h, 0), v0, v1, t)
             v12 == vLinearInterpolation(v01, v1, v2, t)
             v23 == vLinearInterpolation(v12, v2, v3, t)
             v012 == vLinearInterpolation(v23, v01.ret, v12.ret, t)
             v123 == vLinearInterpolation(v012, v12.ret, v23.ret, t)
         IN vLinearInterpolation(v123, v012.ret, v123.ret, t)

cubicDerivativeAt(h, v0, v1, v2, v3, t) ==
    IF OutOfInterval(t) THEN Thrown(h)
    ELSE LET mt == RSub(Num(1), t)
             D(k) == RMul(Num(3),
                         RAdd(RMul(RAdd(RMul(RSub(h[v1][k], h[v0][k]), mt),
                                        RMul(RMul(Num(2), RSub(h[v2][k], h[v1][k])), t)),
                                   mt),
                              RMul(RMul(RSub(h[v3][k], h[v2][k]), t), t)))
             o == create(h)
         IN Returned([o.vec EXCEPT ![o.ret] = <<D(1), D(2)>>], o.ret)

cubicExtrema(p0, p1, p2, p3, extrema) ==
    LET a == RSub(RSub(RAdd(RMul(Num(9), p1), RMul(Num(3), p3)), RMul(Num(3), p0)),
                  RMul(Num(9), p2))
        b == RAdd(RSub(RMul(Num(6), p2), RMul(Num(12), p1)), RMul(Num(6), p0))
        c == RSub(RMul(Num(3), p1), RMul(Num(3), p0))
        r0 == [roots |-> extrema, n |-> 0]
    IN IF isAroundZero(a)
       THEN IF isNotAroundZero(b) THEN Keep(r0, RDiv(RNeg(c), b)) ELSE r0
       ELSE LET disc == RSub(RMul(b, b), RMul(RMul(Num(4), a), c))
            IN IF isAroundZero(disc)
               \* extrema[0] -b / (2 * a); is an expression without effect
               THEN r0
               ELSE IF RLt(Num(0), disc)
               THEN LET discSqrt == Sqrt(disc)
                        t1 == RDiv(RAdd(RNeg(b), discSqrt), RMul(Num(2), a))
                        t2 == RDiv(RSub(RNeg(b), discSqrt), RMul(Num(2), a))
                    IN Keep(Keep(r0, t1), t2)
               ELSE r0

\* if (Y < 0) { Y = -Math.pow(-Y, 1 / 3); } else { Y = Math.pow(Y, 1 / 3); }
SignedCbrt(Y) == IF RLt(Y, Num(0)) THEN RNeg(Cbrt(RNeg(Y))) ELSE Cbrt(Y)

cubicRootAt(p0, p1, p2, p3, val, roots) ==
    LET a == RSub(RAdd(p3, RMul(Num(3), RSub(p1, p2))), p0)
        b == RMul(Num(3), RAdd(RSub(p2, RMul(p1, Num(2))), p0))
        c == RMul(Num(3), RSub(p1, p0))
        d == RSub(p0, val)
        A == RSub(RMul(b, b), RMul(RMul(Num(3), a), c))
        B == RSub(RMul(b, c), RMul(RMul(Num(9), a), d))
        C == RSub(RMul(c, c), RMul(RMul(Num(3), b), d))
        r0 == [roots |-> roots, n |-> 0]
    IN IF isAroundZero(A) /\ isAroundZero(B)
       THEN IF isAroundZero(b)
            \* roots[0] = 0; without n++
            THEN [roots |-> SetAt(roots, 0, Num(0)), n |-> 0]
            ELSE Keep(r0, RDiv(RNeg(c), b))
       ELSE LET disc == RSub(RMul(B, B), RMul(RMul(Num(4), A), C))
            IN IF isAroundZero(disc)
               THEN LET K == RDiv(B, A)
                        t1 == RAdd(RDiv(RNeg(b), a), K)
                        t2 == RDiv(RNeg(K), Num(2))
                    IN Keep(Keep(r0, t1), t2)
               ELSE IF RLt(Num(0), disc)
               THEN Let(Sqrt(disc), LAMBDA discSqrt :
                    Let(SignedCbrt(RAdd(RMul(A, b),
                            RMul(RMul(Frac(3, 2), a), RAdd(RNeg(B), discSqrt)))),
                        LAMBDA Y1 :
                    Let(SignedCbrt(RAdd(RMul(A, b),
                            RMul(RMul(Frac(3, 2), a), RSub(RNeg(B), discSqrt)))),
                        LAMBDA Y2 :
                        Keep(r0, RDiv(RSub(RNeg(b), RAdd(Y1, Y2)), RMul(Num(3), a))))))
               ELSE Let(RDiv(RSub(RMul(RMul(Num(2), A), b), RMul(RMul(Num(3), a), B)),
                             RMul(Num(2), Sqrt(RMul(RMul(A, A), A)))), LAMBDA T :
                    Let(RDiv(Acos(T), Num(3)), LAMBDA theta :
                    Let(Sqrt(A), LAMBDA ASqrt :
                    Let(Cos(theta), LAMBDA tmp :
                    Let(Fix(RMul(Sqrt(Num(3)), Sin(theta))), LAMBDA s :
                    Let(RDiv(RSub(RNeg(b), RMul(RMul(Num(2), ASqrt), tmp)),
                             RMul(Num(3), a)), LAMBDA t1 :
                    Let(RDiv(RAdd(RNeg(b), RMul(ASqrt, RAdd(tmp, s))),
                             RMul(Num(3), a)), LAMBDA t2 :
                    Let(RDiv(RAdd(RNeg(b), RMul(ASqrt, RSub(tmp, s))),
                             RMul(Num(3), a)), LAMBDA t3 :
                        Keep(Keep(Keep(r0, t1), t2), t3)))))))))

\* cubicSubdivide(v0, v1, v2, v3, t, out): [vec, out, threw]
cubicSubdivide(h, v0, v1, v2, v3, t, o) ==
    IF OutOfInterval(t) THEN [vec |-> h, out |-> o, threw |-> TRUE]
    ELSE LET v01 == vLinearInterpolation(Returned(h, 0), v0, v1, t)
             v12 == vLinearInterpolation(v01, v1, v2, t)
             v23 == vLinearInterpolation(v12, v2, v3, t)
             v012 == vLinearInterpolation(v23, v01.ret, v12.ret, t)
             v123 == vLinearInterpolation(v012, v12.ret, v23.ret, t)
             v0123 == vLinearInterpolation(v123, v012.ret, v123.ret, t)
         IN IF v0123.threw THEN [vec |-> v0123.vec, out |-> o, threw |-> TRUE]
            ELSE [vec |-> v0123.vec,
                  out |-> SetAt(SetAt(SetAt(SetAt(SetAt(SetAt(SetAt(SetAt(o,
                              0, v0), 1, v01.ret), 2, v012.ret), 3, v0123.ret),
                              4, v0123.ret), 5, v123.ret), 6, v23.ret), 7, v3),
                  threw |-> FALSE]

(***************************************************************************)
(* The calls of the functions of curve.ts.  The functions keep nothing     *)
(* between two calls: all they read is their arguments and the vectors and *)
(* arrays behind them.  A behaviour is therefore one call: the initial     *)
(* state draws the arguments and the heap the caller has built, and each   *)
(* action is the call of one function with them.                           *)
(***************************************************************************)
\* The coordinates of the control values p0..p3 and of val
Coords == {-1, 0, 1, 2}

\* 1e-9 and its multiples, the numbers below EPSILON
Nano(k) == Frac(k, 10 ^ 9)

\* <<p0, p1, p2, val>> explored for quadraticRootAt: all over Coords, the calls
\* of curve.spec.ts, control values around EPSILON, and numbers that are no
\* reals
Quadratics ==
    { <<Num(p0), Num(p1), Num(p2), Num(val)>> :
          p0 \in Coords, p1 \in Coords, p2 \in Coords, val \in Coords }
    \cup
    { <<Num(5), Num(1), Num(8), Num(5)>>,
      <<Num(4), Num(3), Num(2), Num(3)>>,
      <<Num(4), Num(3), Num(2), Num(5)>>,
      <<Nano(-100), Nano(-50), Nano(-1), Num(0)>>,
      <<Num(0), Num(0), Nano(4), Nano(1)>>,
      <<Num(0), Nano(5), Nano(10), Nano(5)>>,
      <<NaN, Num(0), Num(1), Num(0)>>,
      <<Num(0), Num(1), <<1, 0>>, Num(1)>>,
      <<Num(0), Num(1), Num(2), <<-1, 0>>>> }

\* <<p0, p1, p2, p3, val>> explored for cubicExtrema (without val) and
\* cubicRootAt: all over Coords, the calls of curve.spec.ts, a cubic that is
\* linear in t, and numbers that are no reals
Cubics ==
    { <<Num(p0), Num(p1), Num(p2), Num(p3), Num(val)>> :
          p0 \in Coords, p1 \in Coords, p2 \in Coords, p3 \in Coords, val \in Coords }
    \cup
    { <<Num(1), Num(2), Num(6), Num(8), Num(0)>>,
      <<Num(1), Num(8), Num(0), Num(7), Num(4)>>,
      <<Num(0), Num(2), Num(4), Num(6), Num(3)>>,
      <<NaN, Num(0), Num(1), Num(2), Num(0)>>,
      <<Num(0), Num(1), <<1, 0>>, Num(2), Num(1)>>,
      <<Num(0), Num(1), Num(2), Num(1), <<-1, 0>>>> }

\* What the array roots (or extrema) holds when the caller passes it
RootsGiven == { <<>>, <<Num(7), Num(7), Num(7)>> }

\* The four control points the caller has created, v0..v3 of curve.spec.ts
Polys ==
    { << <<Num(1), Num(1)>>, <<Num(2), Num(8)>>, <<Num(6), Num(0)>>, <<Num(8), Num(7)>> >>,
      << <<Num(1), Num(5)>>, <<Num(3), Num(1)>>, <<Num(7), Num(8)>>, <<Num(0), Num(0)>> >> }

\* The references to the control points
Handles == 1..4

\* The parameters t explored
Ts == { Frac(-1, 4), Num(0), Frac(1, 4), Frac(2, 5), Num(1), Frac(11, 10) }

\* What the array out holds when the caller passes it
OutsGiven == { <<>>, <<4, 4, 4, 4, 4, 4, 4, 4>> }

\* The arguments of a call of a function on vectors: any control points, also
\* the same one twice
VecInputs ==
    { [kind |-> "vec", v |-> <<v0, v1, v2, v3>>, t |-> t,
       p |-> <<Num(0), Num(0), Num(0), Num(0)>>, val |-> Num(0),
       vec |-> poly, out |-> o, roots |-> <<>>] :
          v0 \in Handles, v1 \in Handles, v2 \in Handles, v3 \in Handles,
          t \in Ts, poly \in Polys, o \in OutsGiven }

\* The arguments of a call of quadraticRootAt
QuadInputs ==
    { [kind |-> "quad", v |-> <<1, 2, 3, 4>>, t |-> Num(0),
       p |-> <<s[1], s[2], s[3], Num(0)>>, val |-> s[4],
       vec |-> <<>>, out |-> <<>>, roots |-> r] :
          s \in Quadratics, r \in RootsGiven }

\* The arguments of a call of cubicExtrema or cubicRootAt
CubicInputs ==
    { [kind |-> "cubic", v |-> <<1, 2, 3, 4>>, t |-> Num(0),
       p |-> <<s[1], s[2], s[3], s[4]>>, val |-> s[5],
       vec |-> <<>>, out |-> <<>>, roots |-> r] :
          s \in Cubics, r \in RootsGiven }

CurveInit ==
    /\ LRUIdle
    /\ TransformIdle
    /\ ProjectIdle
    /\ PointerIdle
    /\ \E in \in VecInputs \cup QuadInputs \cup CubicInputs :
          /\ input = in
          /\ vec = in.vec
          /\ outArr = in.out
          /\ rootsArr = in.roots
    /\ call = NoCall

\* A call fn(v0, .., t) that returns a Vec2
VecCall(fn, r) ==
    /\ vec' = r.vec
    /\ call' = [fn |-> fn, ret |-> r.ret, threw |-> r.threw, n |-> 0]
    /\ UNCHANGED <<outArr, rootsArr, input, lruVars, transformVars, projectVars,
                   pointerVars>>

\* A call fn(v0, .., t, out)
SubdivideCall(fn, r) ==
    /\ vec' = r.vec
    /\ outArr' = r.out
    /\ call' = [fn |-> fn, ret |-> 0, threw |-> r.threw, n |-> 0]
    /\ UNCHANGED <<rootsArr, input, lruVars, transformVars, projectVars, pointerVars>>

\* A call fn(p0, .., roots) that returns the number of roots
RootCall(fn, r) ==
    /\ rootsArr' = r.roots
    /\ call' = [fn |-> fn, ret |-> 0, threw |-> FALSE, n |-> r.n]
    /\ UNCHANGED <<vec, outArr, input, lruVars, transformVars, projectVars,
                   pointerVars>>

QuadraticAt ==
    /\ input.kind = "vec" /\ call = NoCall
    /\ \E r \in {quadraticAt(vec, input.v[1], input.v[2], input.v[3], input.t)} :
          VecCall("quadraticAt", r)

QuadraticDerivativeAt ==
    /\ input.kind = "vec" /\ call = NoCall
    /\ \E r \in {quadraticDerivativeAt(vec, input.v[1], input.v[2], input.v[3],
                                       input.t)} :
          VecCall("quadraticDerivativeAt", r)

QuadraticSubdivide ==
    /\ input.kind = "vec" /\ call = NoCall
    /\ \E r \in {quadraticSubdivide(vec, input.v[1], input.v[2], input.v[3],
                                    input.t, outArr)} :
          SubdivideCall("quadraticSubdivide", r)

CubicAt ==
    /\ input.kind = "vec" /\ call = NoCall
    /\ \E r \in {cubicAt(vec, input.v[1], input.v[2], input.v[3], input.v[4],
                         input.t)} :
          VecCall("cubicAt", r)

CubicDerivativeAt ==
    /\ input.kind = "vec" /\ call = NoCall
    /\ \E r \in {cubicDerivativeAt(vec, input.v[1], input.v[2], input.v[3],
                                   input.v[4], input.t)} :
          VecCall("cubicDerivativeAt", r)

CubicSubdivide ==
    /\ input.kind = "vec" /\ call = NoCall
    /\ \E r \in {cubicSubdivide(vec, input.v[1], input.v[2], input.v[3],
                                input.v[4], input.t, outArr)} :
          SubdivideCall("cubicSubdivide", r)

QuadraticRootAt ==
    /\ input.kind = "quad" /\ call = NoCall
    /\ \E r \in {quadraticRootAt(input.p[1], input.p[2], input.p[3], input.val,
                                 rootsArr)} :
          RootCall("quadraticRootAt", r)

CubicExtrema ==
    /\ input.kind = "cubic" /\ call = NoCall
    /\ \E r \in {cubicExtrema(input.p[1], input.p[2], input.p[3], input.p[4],
                              rootsArr)} :
          RootCall("cubicExtrema", r)

CubicRootAt ==
    /\ input.kind = "cubic" /\ call = NoCall
    /\ \E r \in {cubicRootAt(input.p[1], input.p[2], input.p[3], input.p[4],
                             input.val, rootsArr)} :
          RootCall("cubicRootAt", r)

CurveNext ==
    \/ QuadraticAt
    \/ QuadraticDerivativeAt
    \/ QuadraticSubdivide
    \/ CubicAt
    \/ CubicDerivativeAt
    \/ CubicSubdivide
    \/ QuadraticRootAt
    \/ CubicExtrema
    \/ CubicRootAt

CurveSpec == CurveInit /\ [][CurveNext]_vars

(***************************************************************************)
(* quadraticProjectAt and cubicProjectAt.  A call is the coarse scan, then *)
(* one action for each iteration of the refinement loop, then the return.  *)
(* The vectors that quadraticAt and cubicAt create for a call are garbage  *)
(* after it; only their coordinates are kept, each rounded to a multiple   *)
(* of 1 / FixOne as the floating point evaluation rounds.  Math.sqrt is    *)
(* increasing, so the comparisons d < pd of two distances are decided on   *)
(* their squares, which are exact.                                         *)
(***************************************************************************)
\* const EPSILON_NUMERIC = 1e-4
EPSILON_NUMERIC == Frac(1, 10 ^ 4)

\* for (let t = 0; t <= 1; t += 0.05)
ScanStep == Frac(1, 20)

\* let interval = 0.005
FirstInterval == Frac(1, 200)

\* for (let i = 0; i < 32; i++)
MaxIterations == 32

\* The samples t = k * ScanStep that the scan takes are k = 0..19 when the sum
\* of twenty 0.05 is above 1, as it is in double precision, and k = 0..20 when
\* it is 1
LastSamples == {19, 20}

\* The coordinates (1 - t) * p + t * q of linearInterpolation
Interpolated(p, q, t) ==
    << Fix(RAdd(RMul(RSub(Num(1), t), p[1]), RMul(t, q[1]))),
       Fix(RAdd(RMul(RSub(Num(1), t), p[2]), RMul(t, q[2]))) >>

\* quadraticAt(v0, v1, v2, t): threw, or the coordinates of the vector returned
quadraticPointAt(h, v0, v1, v2, t) ==
    IF OutOfInterval(t) THEN [threw |-> TRUE, xy |-> <<NaN, NaN>>]
    ELSE LET v01 == Interpolated(h[v0], h[v1], t)
             v12 == Interpolated(h[v1], h[v2], t)
         IN [threw |-> FALSE, xy |-> Interpolated(v01, v12, t)]

\* cubicAt(v0, v1, v2, v3, t): threw, or the coordinates of the vector returned
cubicPointAt(h, v0, v1, v2, v3, t) ==
    IF OutOfInterval(t) THEN [threw |-> TRUE, xy |-> <<NaN, NaN>>]
    ELSE LET v01 == Interpolated(h[v0], h[v1], t)
             v12 == Interpolated(h[v1], h[v2], t)
             v23 == Interpolated(h[v2], h[v3], t)
             v012 == Interpolated(v01, v12, t)
             v123 == Interpolated(v12, v23, t)
         IN [threw |-> FALSE, xy |-> Interpolated(v012, v123, t)]

\* The point of the curve of the running call at t
PointAt(fn, h, v, t) ==
    IF fn = "quadraticProjectAt" THEN quadraticPointAt(h, v[1], v[2], v[3], t)
    ELSE cubicPointAt(h, v[1], v[2], v[3], v[4], t)

\* squaredDistance(v1, v2) of vector.ts, for the coordinates p and q
squaredDistance(p, q) ==
    RAdd(RMul(RSub(p[1], q[1]), RSub(p[1], q[1])),
         RMul(RSub(p[2], q[2]), RSub(p[2], q[2])))

\* pt after the scan: the first sample t = k * ScanStep of k = 0..last at which
\* the distance to the point q is the least
Scanned(fn, h, v, q, last) ==
    LET d == [k \in 0..last |->
                 squaredDistance(q, PointAt(fn, h, v, RMul(Num(k), ScanStep)).xy)]
        best == CHOOSE k \in 0..last :
                    /\ \A j \in 0..last : RLe(d[k], d[j])
                    /\ \A j \in 0..(k - 1) : RLt(d[k], d[j])
    IN RMul(Num(best), ScanStep)

\* The arguments explored: the control points of curve.spec.ts, the points v
\* of its tests and others, out as create() makes it
ProjectedPoints ==
    { <<Num(4), Num(9)>>, <<Num(9), Frac(1, 2)>>, <<Num(-2), Num(1)>>,
      <<Num(1), Num(1)>>, <<Num(4), Num(3)>>, <<Num(7), Num(2)>>,
      <<Num(0), Num(0)>> }

ProjectInputs ==
    { [kind |-> "project", v |-> <<1, 2, 3, 4, 5, 6>>, last |-> last,
       vec |-> << <<Num(0), Num(0)>>, <<Num(4), Num(6)>>, <<Num(8), Num(0)>>,
                  <<Num(4), Num(9)>>, q, <<Num(0), Num(0)>> >>] :
          q \in ProjectedPoints, last \in LastSamples }

ProjectInit ==
    /\ LRUIdle
    /\ TransformIdle
    /\ PointerIdle
    /\ ProjectIdle
    /\ \E in \in ProjectInputs :
          /\ input = in
          /\ vec = in.vec
    /\ outArr = <<>>
    /\ rootsArr = <<>>
    /\ call = NoCall

\* The scan of the call fn(v0, .., v, out), up to the first test of the
\* refinement loop
ProjectScan(fn) ==
    /\ input.kind = "project" /\ proj.pc = "idle"
    /\ proj' = [pc |-> "refine", fn |-> fn,
                pt |-> Scanned(fn, vec, input.v, vec[input.v[5]], input.last),
                pdSquared |-> <<1, 0>>, interval |-> FirstInterval, i |-> 0,
                threw |-> FALSE, ret |-> Num(0)]
    /\ UNCHANGED <<curveVars, lruVars, transformVars, pointerVars>>

QuadraticProjectAt == ProjectScan("quadraticProjectAt")

CubicProjectAt == ProjectScan("cubicProjectAt")

\* interval *= 2
Halved_Doubled(interval) == RMul(interval, Num(2))

\* interval *= 0.5
Halved(interval) == RMul(interval, Frac(1, 2))

\* if (interval < EPSILON_NUMERIC) { break; }
BelowThreshold(interval) == RLt(interval, EPSILON_NUMERIC)

\* The call is left by an Error that quadraticAt or cubicAt throws
ProjectThrown(p) == [p EXCEPT !.pc = "done", !.threw = TRUE]

\* One iteration of the refinement loop, from the state p of the call
Refined(p, h, v, q) ==
    LET prevT == RSub(p.pt, p.interval)
        prevV == PointAt(p.fn, h, v, prevT)
        prevD == squaredDistance(q, prevV.xy)
        nextT == RAdd(p.pt, p.interval)
        nextV == PointAt(p.fn, h, v, nextT)
        nextD == squaredDistance(q, nextV.xy)
    IN IF prevV.threw THEN ProjectThrown(p)
       ELSE IF RLe(Num(0), prevT) /\ RLt(prevD, p.pdSquared)
       THEN [p EXCEPT !.pt = prevT, !.pdSquared = prevD, !.i = p.i + 1]
       ELSE IF nextV.threw THEN ProjectThrown(p)
       ELSE IF RLe(nextT, Num(1)) /\ RLt(nextD, p.pdSquared)
       THEN [p EXCEPT !.pt = nextT, !.pdSquared = nextD, !.i = p.i + 1]
       ELSE [p EXCEPT !.interval = Halved(p.interval), !.i = p.i + 1]

ProjectRefine ==
    /\ proj.pc = "refine"
    /\ proj.i < MaxIterations
    /\ ~BelowThreshold(proj.interval)
    /\ proj' = Refined(proj, vec, input.v, vec[input.v[5]])
    /\ UNCHANGED <<curveVars, lruVars, transformVars, pointerVars>>

\* After the loop: pv = fn(v0, .., pt); vCopy(out, pv); return Math.sqrt(pd),
\* where pd is the distance, the square root of pdSquared
ProjectReturn ==
    /\ proj.pc = "refine"
    /\ proj.i >= MaxIterations \/ BelowThreshold(proj.interval)
    /\ \E pv \in {PointAt(proj.fn, vec, input.v, proj.pt)} :
          IF pv.threw
          THEN /\ proj' = ProjectThrown(proj)
               /\ vec' = vec
          ELSE /\ proj' = [proj EXCEPT !.pc = "done",
                                       !.ret = Sqrt(Sqrt(proj.pdSquared))]
               /\ vec' = [vec EXCEPT ![input.v[6]] = pv.xy]
    /\ UNCHANGED <<outArr, rootsArr, input, call, lruVars, transformVars,
                   pointerVars>>

ProjectNext ==
    \/ QuadraticProjectAt
    \/ CubicProjectAt
    \/ ProjectRefine
    \/ ProjectReturn

ProjectSpec == ProjectInit /\ [][ProjectNext]_vars

\* The call is not over: one of the four steps above can be taken
ProjectEnabled == proj.pc # "done"

\* The loops are executed one after the other until the call is over: weak
\* fairness of ProjectNext, WF_vars(ProjectNext), written with the guards of
\* the steps for ENABLED <<ProjectNext>>_vars
ProjectFairSpec == ProjectSpec /\ ([]<>(~ProjectEnabled) \/ []<><<ProjectNext>>_vars)

(***************************************************************************)
(* vector.ts and matrix.ts: the operations that write their result to the  *)
(* parameter out.  A Vec2 is an array of two numbers, a Matrix one of six;  *)
(* vec maps the references to the arrays, and the assignments of an        *)
(* operation are made one after the other, each reading the arrays as the  *)
(* assignments before it have left them.                                   *)
(***************************************************************************)
\* out[k - 1] = x
Store(h, o, k, x) == [h EXCEPT ![o][k] = x]

\* Math.min(x, y) and Math.max(x, y)
MathMin(x, y) == IF IsNaN(x) \/ IsNaN(y) THEN NaN ELSE IF RLt(y, x) THEN y ELSE x

MathMax(x, y) == IF IsNaN(x) \/ IsNaN(y) THEN NaN ELSE IF RLt(x, y) THEN y ELSE x

\* Math.tan(x)
Tan(x) == Fix(RDiv(Sin(x), Cos(x)))

add(h, o, v1, v2) ==
    LET h1 == Store(h, o, 1, RAdd(h[v1][1], h[v2][1]))
    IN Returned(Store(h1, o, 2, RAdd(h1[v1][2], h1[v2][2])), o)

sub(h, o, v1, v2) ==
    LET h1 == Store(h, o, 1, RSub(h[v1][1], h[v2][1]))
    IN Returned(Store(h1, o, 2, RSub(h1[v1][2], h1[v2][2])), o)

mul(h, o, v1, v2) ==
    LET h1 == Store(h, o, 1, RMul(h[v1][1], h[v2][1]))
    IN Returned(Store(h1, o, 2, RMul(h1[v1][2], h1[v2][2])), o)

div(h, o, v1, v2) ==
    IF h[v2][1] = Num(0) \/ h[v2][2] = Num(0) THEN Thrown(h)
    ELSE LET h1 == Store(h, o, 1, RDiv(h[v1][1], h[v2][1]))
         IN Returned(Store(h1, o, 2, RDiv(h1[v1][2], h1[v2][2])), o)

scale(h, o, v, s) ==
    LET h1 == Store(h, o, 1, RMul(h[v][1], s))
    IN Returned(Store(h1, o, 2, RMul(h1[v][2], s)), o)

normalize(h, o, v) ==
    LET x == h[v][1]
        y == h[v][2]
        len == Sqrt(RAdd(RMul(x, x), RMul(y, y)))
    IN IF len = Num(0)
       THEN Returned([h EXCEPT ![o] = <<Num(0), Num(0)>>], o)
       ELSE Returned([h EXCEPT ![o] = <<RDiv(x, len), RDiv(y, len)>>], o)

min(h, o, v1, v2) ==
    LET h1 == Store(h, o, 1, MathMin(h[v1][1], h[v2][1]))
    IN Returned(Store(h1, o, 2, MathMin(h1[v1][2], h1[v2][2])), o)

max(h, o, v1, v2) ==
    LET h1 == Store(h, o, 1, MathMax(h[v1][1], h[v2][1]))
    IN Returned(Store(h1, o, 2, MathMax(h1[v1][2], h1[v2][2])), o)

\* invert(out, m) of matrix.ts: m is read into m0 .. m5 before out is written
invert(h, o, m) ==
    LET a == h[m]
        det == RSub(RMul(a[1], a[4]), RMul(a[2], a[3]))
    IN IF det = Num(0) THEN Thrown(h)
       ELSE Returned([h EXCEPT ![o] =
                << RDiv(a[4], det),
                   RDiv(RNeg(a[2]), det),
                   RDiv(RNeg(a[3]), det),
                   RDiv(a[1], det),
                   RDiv(RSub(RMul(a[3], a[6]), RMul(a[4], a[5])), det),
                   RDiv(RSub(RMul(a[2], a[5]), RMul(a[1], a[6])), det) >>], o)

\* skew(out, m, v): m is read into m0 .. m5 before out is written
skew(h, o, m, v) ==
    LET a == h[m]
        tx == Tan(h[v][1])
        ty == Tan(h[v][2])
    IN Returned([h EXCEPT ![o] =
            << RAdd(a[1], RMul(tx, a[2])),
               RAdd(RMul(ty, a[1]), a[2]),
               RAdd(a[3], RMul(tx, a[4])),
               RAdd(RMul(ty, a[3]), a[4]),
               RAdd(a[5], RMul(tx, a[6])),
               RAdd(RMul(ty, a[5]), a[6]) >>], o)

\* rotate(out, m, angle): m is read into m0 .. m5 before out is written
rotate(h, o, m, angle) ==
    LET a == h[m]
        st == Sin(angle)
        ct == Cos(angle)
    IN Returned([h EXCEPT ![o] =
            << RAdd(RMul(a[1], ct), RMul(a[2], st)),
               RAdd(RMul(RNeg(a[1]), st), RMul(a[2], ct)),
               RAdd(RMul(a[3], ct), RMul(a[4], st)),
               RAdd(RMul(RNeg(a[3]), st), RMul(ct, a[4])),
               RAdd(RMul(ct, a[5]), RMul(st, a[6])),
               RSub(RMul(ct, a[6]), RMul(st, a[5])) >>], o)

\* multiply that assigns out[0] .. out[5] one by one, without out0 .. out5
multiply_InPlace(h, o, m1, m2) ==
    LET h1 == Store(h, o, 1, RAdd(RMul(h[m1][1], h[m2][1]), RMul(h[m1][3], h[m2][2])))
        h2 == Store(h1, o, 2, RAdd(RMul(h1[m1][2], h1[m2][1]), RMul(h1[m1][4], h1[m2][2])))
        h3 == Store(h2, o, 3, RAdd(RMul(h2[m1][1], h2[m2][3]), RMul(h2[m1][3], h2[m2][4])))
        h4 == Store(h3, o, 4, RAdd(RMul(h3[m1][2], h3[m2][3]), RMul(h3[m1][4], h3[m2][4])))
        h5 == Store(h4, o, 5, RAdd(RAdd(RMul(h4[m1][1], h4[m2][5]),
                                        RMul(h4[m1][3], h4[m2][6])), h4[m1][5]))
    IN Returned(Store(h5, o, 6, RAdd(RAdd(RMul(h5[m1][2], h5[m2][5]),
                                          RMul(h5[m1][4], h5[m2][6])), h5[m1][6])), o)

\* multiply(out, m1, m2): out0 .. out5 are computed before out is written
multiply(h, o, m1, m2) ==
    LET a == h[m1]
        b == h[m2]
    IN Returned([h EXCEPT ![o] =
            << RAdd(RMul(a[1], b[1]), RMul(a[3], b[2])),
               RAdd(RMul(a[2], b[1]), RMul(a[4], b[2])),
               RAdd(RMul(a[1], b[3]), RMul(a[3], b[4])),
               RAdd(RMul(a[2], b[3]), RMul(a[4], b[4])),
               RAdd(RAdd(RMul(a[1], b[5]), RMul(a[3], b[6])), a[5]),
               RAdd(RAdd(RMul(a[2], b[5]), RMul(a[4], b[6])), a[6]) >>], o)

\* The operations on vectors and those on matrices
VectorFns ==
    { "add", "sub", "mul", "div", "scale", "normalize", "min", "max",
      "linearInterpolation" }

MatrixFns == { "invert", "skew", "rotate", "multiply" }

\* fn(out, a, b) or fn(out, a, s) or fn(out, a), with the arrays h, the number
\* s and, for skew, the Vec2 w
Applied(fn, h, o, a, b, s, w) ==
    CASE fn = "add" -> add(h, o, a, b)
      [] fn = "sub" -> sub(h, o, a, b)
      [] fn = "mul" -> mul(h, o, a, b)
      [] fn = "div" -> div(h, o, a, b)
      [] fn = "scale" -> scale(h, o, a, s)
      [] fn = "normalize" -> normalize(h, o, a)
      [] fn = "min" -> min(h, o, a, b)
      [] fn = "max" -> max(h, o, a, b)
      [] fn = "linearInterpolation" -> linearInterpolation(h, o, a, b, s)
      [] fn = "invert" -> invert(h, o, a)
      [] fn = "skew" -> skew(h, o, a, w)
      [] fn = "rotate" -> rotate(h, o, a, s)
      [] fn = "multiply" -> multiply(h, o, a, b)

VectorHeaps ==
    { << <<Num(3), Num(4)>>, <<Num(-2), Num(5)>>, <<Frac(1, 2), Num(0)>>,
         <<Num(7), Num(7)>>, <<Frac(1, 2), Frac(1, 4)>> >>,
      << <<Num(0), Num(0)>>, <<Num(1), Num(2)>>, <<Num(6), Num(-8)>>,
         <<Num(7), Num(7)>>, <<Frac(1, 2), Frac(1, 4)>> >> }

MatrixHeaps ==
    { << <<Num(1), Num(2), Num(3), Num(4), Num(5), Num(6)>>,
         <<Num(2), Num(0), Num(1), Num(2), Num(-1), Num(3)>>,
         <<Num(1), Num(2), Num(2), Num(4), Num(0), Num(1)>>,
         <<Num(7), Num(7), Num(7), Num(7), Num(7), Num(7)>>,
         <<Frac(1, 2), Frac(1, 4)>> >>,
      << <<Num(0), Num(1), Num(-1), Num(0), Num(2), Num(2)>>,
         <<Num(1), Num(0), Num(0), Num(1), Num(0), Num(0)>>,
         <<Frac(1, 2), Num(3), Num(1), Num(-2), Num(4), Num(1)>>,
         <<Num(7), Num(7), Num(7), Num(7), Num(7), Num(7)>>,
         <<Num(1), Num(0)>> >> }

\* The arrays of a call: three that the call may be given as out and as inputs,
\* then the array Spare that is out when out is a separate array, and last the
\* Vec2 of skew
SkewBy == Len(CHOOSE h \in VectorHeaps : TRUE)

Spare == SkewBy - 1

\* The numbers s, t and angle
Scalars == { Num(0), Frac(1, 4), Num(1), Frac(3, 2), Num(-2) }

\* The arguments of a call of an operation of vector.ts ("vector") or
\* matrix.ts ("matrix"): out is a separate array or one of the inputs
OutInputs ==
    { [kind |-> k, v |-> <<o, a, b, SkewBy, 1, 1>>, t |-> s,
       p |-> <<Num(0), Num(0), Num(0), Num(0)>>, val |-> Num(0),
       vec |-> h, out |-> <<>>, roots |-> <<>>] :
          k \in {"vector"}, o \in 1..Spare, a \in 1..3, b \in 1..3,
          s \in Scalars, h \in VectorHeaps }
    \cup
    { [kind |-> k, v |-> <<o, a, b, SkewBy, 1, 1>>, t |-> s,
       p |-> <<Num(0), Num(0), Num(0), Num(0)>>, val |-> Num(0),
       vec |-> h, out |-> <<>>, roots |-> <<>>] :
          k \in {"matrix"}, o \in 1..Spare, a \in 1..3, b \in 1..3,
          s \in Scalars, h \in MatrixHeaps }

VectorInit ==
    /\ LRUIdle
    /\ TransformIdle
    /\ ProjectIdle
    /\ PointerIdle
    /\ \E in \in OutInputs :
          /\ input = in
          /\ vec = in.vec
          /\ outArr = in.out
          /\ rootsArr = in.roots
    /\ call = NoCall

\* The call fn(out, ..) with the arguments drawn
OutCall(kind, fn) ==
    /\ input.kind = kind /\ call = NoCall
    /\ \E r \in {Applied(fn, vec, input.v[1], input.v[2], input.v[3], input.t,
                         input.v[4])} :
          VecCall(fn, r)

Add == OutCall("vector", "add")

Sub == OutCall("vector", "sub")

Mul == OutCall("vector", "mul")

Div == OutCall("vector", "div")

Scale == OutCall("vector", "scale")

Normalize == OutCall("vector", "normalize")

Min == OutCall("vector", "min")

Max == OutCall("vector", "max")

LinearInterpolation == OutCall("vector", "linearInterpolation")

Invert == OutCall("matrix", "invert")

Skew == OutCall("matrix", "skew")

Rotate == OutCall("matrix", "rotate")

Multiply == OutCall("matrix", "multiply")

VectorNext ==
    \/ Add
    \/ Sub
    \/ Mul
    \/ Div
    \/ Scale
    \/ Normalize
    \/ Min
    \/ Max
    \/ LinearInterpolation
    \/ Invert
    \/ Skew
    \/ Rotate
    \/ Multiply

VectorSpec == VectorInit /\ [][VectorNext]_vars

(***************************************************************************)
(* dom.ts: preparePointerTransformer.  A transformer is modelled by the    *)
(* call of buildTransformer that made it: [built, src, dest, vh].          *)
(***************************************************************************)
\* markers[i].offsetLeft and markers[i].offsetTop of the four markers, which
\* prepareCoordMarkers puts into the corners of the element
MarkerOffsets == <<0, 0, 1, 0, 0, 1, 1, 1>>

\* What getBoundingClientRect gives as left and top of the four markers: the
\* element as it is laid out, moved, scaled, and flattened to a line
MarkerRects ==
    { <<0, 0, 1, 0, 0, 1, 1, 1>>,
      <<1, 1, 2, 1, 1, 2, 2, 2>>,
      <<0, 0, 2, 0, 0, 2, 2, 2>>,
      <<0, 0, 1, 0, 2, 0, 3, 0>> }

\* saved.trans and saved.invTrans when they are undefined
NoTransformer == [built |-> FALSE, src |-> <<>>, dest |-> <<>>, vh |-> <<>>]

\* What buildTransformer(src, dest) returns: undefined when det is 0
Built(src, dest) ==
    LET vh == buildTransformer(src, dest, NewDetCache(8)).vh
    IN IF vh = <<>> THEN NoTransformer
       ELSE [built |-> TRUE, src |-> src, dest |-> dest, vh |-> vh]

\* No call of preparePointerTransformer has been made
NotPrepared ==
    [called |-> FALSE, inverse |-> FALSE, coords |-> <<>>, threw |-> FALSE,
     transformer |-> NoTransformer]

\* preparePointerTransformer(markers, saved, inverse), with rects the
\* coordinates that the markers give (<<>> for an array of no markers, whose
\* markers[0] is undefined): saved as the call leaves it, and what it returns
preparePointerTransformer(rects, sv, inverse) ==
    LET transformer == IF inverse THEN sv.invTrans ELSE sv.trans
        oldSrcCoords == sv.srcCoords
        srcCoords == rects
        destCoords == MarkerOffsets
        oldCoordTheSame == oldSrcCoords # <<>> /\ srcCoords = oldSrcCoords
        made == IF inverse THEN Built(destCoords, srcCoords)
                ELSE Built(srcCoords, destCoords)
    IN IF rects = <<>>
       THEN [saved |-> sv, threw |-> TRUE, ret |-> NoTransformer]
       ELSE IF oldCoordTheSame /\ transformer.built
       THEN [saved |-> sv, threw |-> FALSE, ret |-> transformer]
       ELSE [saved |-> IF inverse
                       THEN [sv EXCEPT !.srcCoords = srcCoords, !.invTrans = made]
                       ELSE [sv EXCEPT !.srcCoords = srcCoords, !.trans = made],
             threw |-> FALSE, ret |-> made]

PointerInit ==
    /\ LRUIdle
    /\ TransformIdle
    /\ CurveIdle
    /\ ProjectIdle
    /\ markers \in MarkerRects \cup {<<>>}
    /\ saved = [srcCoords |-> <<>>, trans |-> NoTransformer,
                invTrans |-> NoTransformer]
    /\ prepared = NotPrepared

\* The page is scrolled or the element is transformed: the markers are shown
\* at other coordinates
MoveMarkers(rects) ==
    /\ markers # <<>>
    /\ rects # markers
    /\ markers' = rects
    /\ UNCHANGED <<saved, prepared, lruVars, transformVars, curveVars, projectVars>>

\* A call preparePointerTransformer(markers, saved, inverse)
PreparePointerTransformer(inverse) ==
    /\ \E r \in {preparePointerTransformer(markers, saved, inverse)} :
          /\ saved' = r.saved
          /\ prepared' = [called |-> TRUE, inverse |-> inverse, coords |-> markers,
                          threw |-> r.threw, transformer |-> r.ret]
    /\ UNCHANGED <<markers, lruVars, transformVars, curveVars, projectVars>>

PointerNext ==
    \/ \E rects \in MarkerRects : MoveMarkers(rects)
    \/ \E inverse \in BOOLEAN : PreparePointerTransformer(inverse)

PointerSpec == PointerInit /\ [][PointerNext]_vars

(***************************************************************************)
(* The rectangles around curves: fromQuadraticCurve and fromCubicCurve.    *)
(* A Rect is [x, y, width, height]; a variable that is null holds <<>>.    *)
(***************************************************************************)
\* quadraticExtremum(p0, p1, p2) of curve.ts
quadraticExtremum(p0, p1, p2) ==
    LET divider == RAdd(RSub(p0, RMul(Num(2), p1)), p2)
    IN IF divider = Num(0) THEN Frac(1, 2)
       ELSE RDiv(RSub(p0, p1), divider)

\* clamp(number, lower, upper) of lodash
clamp(number, lower, upper) == MathMax(lower, MathMin(number, upper))

\* The number that arithmetic takes for x: 0 for null
ToNumber(x) == IF x = <<>> THEN Num(0) ELSE x

fromQuadraticCurve(h, v0, v1, v2) ==
    LET tx == clamp(quadraticExtremum(h[v0][1], h[v1][1], h[v2][1]), Num(0), Num(1))
        ty == clamp(quadraticExtremum(h[v0][2], h[v1][2], h[v2][2]), Num(0), Num(1))
        v3 == quadraticDerivativeAt(h, v0, v1, v2, tx)
        v4 == quadraticDerivativeAt(v3.vec, v0, v1, v2, ty)
        left == MathMin(MathMin(h[v0][1], h[v2][1]), v3.vec[v3.ret][1])
        right == MathMin(MathMin(h[v0][1], h[v2][1]), v3.vec[v3.ret][1])
        top == MathMax(MathMax(h[v0][2], h[v2][2]), v4.vec[v4.ret][2])
        bottom == MathMax(MathMax(h[v0][2], h[v2][2]), v4.vec[v4.ret][2])
    IN IF v3.threw THEN Thrown(h)
       ELSE IF v4.threw THEN Thrown(v3.vec)
       ELSE [vec |-> v4.vec,
             ret |-> [x |-> left, y |-> top, width |-> RSub(right, left),
                      height |-> RSub(bottom, top)],
             threw |-> FALSE]

\* The pass i of one of the two loops of fromCubicCurve, over the n extrema
\* ts and the coordinate k, after the passes that left e: the arrays, the
\* smallest and the largest coordinate so far (lo and hi), and whether cubicAt
\* threw
Pass(e, v, ts, n, i, k) ==
    IF e.threw \/ i >= n THEN e
    ELSE Let(cubicAt(e.vec, v[1], v[2], v[3], v[4], ts[i + 1]), LAMBDA at :
             IF at.threw THEN [e EXCEPT !.threw = TRUE]
             ELSE [vec |-> at.vec,
                   lo |-> IF e.lo = <<>> THEN at.vec[at.ret][k]
                          ELSE MathMin(e.lo, at.vec[at.ret][k]),
                   hi |-> IF e.hi = <<>> THEN at.vec[at.ret][k]
                          ELSE MathMax(e.hi, at.vec[at.ret][k]),
                   threw |-> FALSE])

\* for (let i = 0; i < n; i++), where n, which cubicExtrema returns, is 2 at
\* most
Extent(h, v, ts, n, k) ==
    Pass(Pass([vec |-> h, lo |-> <<>>, hi |-> <<>>, threw |-> FALSE],
              v, ts, n, 0, k),
         v, ts, n, 1, k)

fromCubicCurve(h, v0, v1, v2, v3) ==
    Let(cubicExtrema(h[v0][1], h[v1][1], h[v2][1], h[v3][1], <<>>), LAMBDA ex :
    Let(Extent(h, <<v0, v1, v2, v3>>, ex.roots, ex.n, 1), LAMBDA xs :
    Let(cubicExtrema(h[v0][2], h[v1][2], h[v2][2], h[v3][2], ex.roots), LAMBDA ey :
    Let(Extent(xs.vec, <<v0, v1, v2, v3>>, ey.roots, ey.n, 2), LAMBDA ys :
        IF xs.threw THEN Thrown(xs.vec)
        ELSE IF ys.threw THEN Thrown(ys.vec)
        ELSE [vec |-> ys.vec,
              ret |-> [x |-> xs.lo, y |-> ys.lo,
                       width |-> RSub(ToNumber(xs.hi), ToNumber(xs.lo)),
                       height |-> RSub(ToNumber(ys.hi), ToNumber(ys.lo))],
              threw |-> FALSE]))))

\* The coordinates of four control points along one axis: without an
\* extremum, with one or two of them inside [0, 1], and with disc = 0
Axes ==
    { <<0, 1, 2, 3>>, <<0, 3, 3, 0>>, <<3, 0, 0, 3>>, <<0, 9, 0, 0>>,
      <<4, 0, 0, 1>>, <<0, 5, 3, 2>>, <<0, 6, 0, 9>>, <<0, 3, 0, 3>> }

\* The arguments of a call of fromQuadraticCurve (which gets v0, v1, v2) or
\* fromCubicCurve
RectInputs ==
    { [kind |-> "rect", v |-> <<1, 2, 3, 4>>, t |-> Num(0),
       p |-> <<Num(0), Num(0), Num(0), Num(0)>>, val |-> Num(0),
       vec |-> << <<Num(xs[1]), Num(ys[1])>>, <<Num(xs[2]), Num(ys[2])>>,
                  <<Num(xs[3]), Num(ys[3])>>, <<Num(xs[4]), Num(ys[4])>> >>,
       out |-> <<>>, roots |-> <<>>] : xs \in Axes, ys \in Axes }

RectInit ==
    /\ LRUIdle
    /\ TransformIdle
    /\ ProjectIdle
    /\ PointerIdle
    /\ \E in \in RectInputs :
          /\ input = in
          /\ vec = in.vec
          /\ outArr = in.out
          /\ rootsArr = in.roots
    /\ call = NoCall

FromQuadraticCurve ==
    /\ input.kind = "rect" /\ call.fn = NoCall.fn
    /\ \E r \in {fromQuadraticCurve(vec, input.v[1], input.v[2], input.v[3])} :
          VecCall("fromQuadraticCurve", r)

FromCubicCurve ==
    /\ input.kind = "rect" /\ call.fn = NoCall.fn
    /\ \E r \in {fromCubicCurve(vec, input.v[1], input.v[2], input.v[3],
                                input.v[4])} :
          VecCall("fromCubicCurve", r)

RectNext ==
    \/ FromQuadraticCurve
    \/ FromCubicCurve

RectSpec == RectInit /\ [][RectNext]_vars

(***************************************************************************)
(* Properties                                                              *)
(***************************************************************************)

\* C1: with an integer limit L >= 1, a put of a key that is not present while
\* the cache holds L entries removes exactly one entry, the present key whose
\* most recent put or successful get is the oldest, returns that entry's
\* value, keeps every other entry with its value, and stores the new key as
\* the most recently used one.
C1_PutEvictsLeastRecentlyUsed ==
    [][\A key \in Keys :
        (/\ lastOp'.name = "put"
         /\ lastOp'.key = key
         /\ limit >= 1
         /\ key \notin DOMAIN map
         /\ MapSize = limit)
        => /\ ~lastOp'.threw
           /\ Oldest(touchOrder, DOMAIN map) \in DOMAIN map
           /\ \A victim \in Keys :
                 victim = Oldest(touchOrder, DOMAIN map)
                 => /\ DOMAIN map' = ((DOMAIN map) \ {victim}) \cup {key}
                    /\ ret' = ValueOf(victim)
                    /\ \A other \in (DOMAIN map) \ {victim} :
                          ValueOf(other)' = ValueOf(other)
                    /\ ValueOf(key)' = lastOp'.value
                    /\ MostRecentKey' = key
                    /\ LRU_has(State, key).ret'
                    /\ ~LRU_has(State, victim).ret']_vars

\* Key 3 has been put into a full cache of limit 2 that held the keys 2 and 1,
\* touched in this order: key 2 is gone and its value 2 is returned
C1_Witness ==
    /\ lastOp.name = "put"
    /\ ~lastOp.hit
    /\ limit = 2
    /\ lastOp.before = limit
    /\ lastOp.oldest = 2
    /\ touchOrder = <<2, 1, 3>>
    /\ DOMAIN map = {1, 3}
    /\ ret = 2

\* The cache is full: a put of a new key evicts
Full == MapSize >= limit /\ MapSize > 0

\* What every successful get(key) does: the key becomes the most recently
\* used one, the other keys keep their relative order, no key and no value
\* changes, and a get of the most recently used key changes nothing
GetPromotes(key) ==
    (lastOp'.name = "get" /\ lastOp'.key = key /\ key \in DOMAIN map)
    => /\ ~lastOp'.threw
       /\ ret' = ValueOf(key)
       /\ ListKeys' = Touch(ListKeys, key)
       /\ MostRecentKey' = key
       /\ DOMAIN map' = DOMAIN map
       /\ \A other \in DOMAIN map : ValueOf(other)' = ValueOf(other)
       /\ key = MostRecentKey => UNCHANGED <<heap, linkedList, map, limit>>

\* This step is a put of a new key that directly follows a successful
\* get(key) of the key that was the least recently used one of a full cache
PutAfterGetOfOldest(key) ==
    /\ lastOp.name = "get"
    /\ lastOp.key = key
    /\ lastOp.hit
    /\ lastOp.oldest = key
    /\ Full
    /\ lastOp'.name = "put"
    /\ lastOp'.key \notin DOMAIN map

\* The put evicts the key that was second-oldest before the get, which after
\* the get is the oldest of the keys other than key, and key stays
EvictsSecondOldest(key) ==
    /\ key \in DOMAIN map'
    /\ \A second \in Keys :
          second = Oldest(touchOrder, (DOMAIN map) \ {key})
          => (DOMAIN map) \ (DOMAIN map') = {second}

C3_SizeAtMostLimit ==
    limit >= 1 =>
        /\ MapSize <= limit
        /\ LinkedList_size(State) <= limit
        /\ Len(ListRefs) <= limit

\* The largest limit, reached and held across a put of a new key
C3_Witness ==
    /\ limit = MaxLimit
    /\ lastOp.name = "put"
    /\ ~lastOp.hit
    /\ lastOp.before = limit
    /\ MapSize = limit

\* C4: the keys of the map are the keys carried by the nodes of the linked
\* list, each key is carried by exactly one node, the map entry of a key is
\* the node that carries it, and linkedList.size() is the number of map
\* entries.
C4_MapMatchesList ==
    /\ DOMAIN map = KeysOf(ListKeys)
    /\ \A i, j \in 1..Len(ListKeys) : ListKeys[i] = ListKeys[j] => i = j
    /\ \A key \in DOMAIN map :
          /\ map[key] \in KeysOf(ListRefs)
          /\ heap[map[key]].value.k = key
    /\ LinkedList_size(State) = MapSize

\* A get has reordered a list of two or more nodes after an eviction
C4_Witness ==
    /\ lastOp.name = "get"
    /\ lastOp.hit
    /\ lastOp.oldest = lastOp.key
    /\ MapSize >= 2
    /\ MapSize = limit
    /\ \E key \in Keys : key \notin DOMAIN map

\* C5: put(k, v) returns the value previously stored under k when k was
\* present, the evicted entry's value when k was new and an entry was evicted,
\* and null when k was new and nothing was evicted.
C5_PutReturnValue ==
    [][\A key \in Keys :
        (lastOp'.name = "put" /\ lastOp'.key = key)
        => LET gone == (DOMAIN map) \ (DOMAIN map')
           IN /\ ~lastOp'.threw
              /\ key \in DOMAIN map => ret' = ValueOf(key)
              /\ key \notin DOMAIN map /\ gone # {}
                     => \A victim \in gone : ret' = ValueOf(victim)
              /\ key \notin DOMAIN map /\ gone = {} => ret' = Null]_vars

\* A put that overwrote a value other than null with another value
C5_Witness ==
    /\ lastOp.name = "put"
    /\ lastOp.hit
    /\ ret # Null
    /\ ret # lastOp.value
    /\ ValueOf(lastOp.key) = lastOp.value

C7_HasAndMissChangeNothing ==
    [][(\/ lastOp'.name = "has"
        \/ lastOp'.name = "get" /\ lastOp'.key \notin DOMAIN map)
       => /\ ~lastOp'.threw
          /\ UNCHANGED <<heap, linkedList, map, limit>>
          /\ ListKeys' = ListKeys
          /\ \A key \in Keys : ValueOf(key)' = ValueOf(key)]_vars

\* A has of the least recently used key of a full cache of two or more
C7_Witness ==
    /\ lastOp.name = "has"
    /\ found
    /\ lastOp.oldest = lastOp.key
    /\ limit >= 2
    /\ MapSize = limit
    /\ ListKeys[1] = lastOp.key

\* C8: has(k) is true exactly when k is stored, whatever its value: for a key
\* stored with the value null, get returns null and has returns true; for a
\* key never stored or already evicted, get returns null without an error and
\* has returns false.
C8_HasTellsStored ==
    /\ \A key \in Keys :
          /\ LRU_has(State, key).ret <=> key \in KeysOf(ListKeys)
          /\ ~LRU_has(State, key).w.err
          /\ (key \in KeysOf(ListKeys) /\ ValueOf(key) = Null)
                => /\ LRU_get(State, key).ret = Null
                   /\ LRU_has(State, key).ret
          /\ key \notin KeysOf(ListKeys)
                => /\ LRU_get(State, key).ret = Null
                   /\ ~LRU_get(State, key).w.err
                   /\ ~LRU_has(State, key).ret
          /\ key \notin KeysOf(touchOrder) => ~LRU_has(State, key).ret
    /\ lastOp.name = "has"
          => /\ found <=> lastOp.key \in KeysOf(ListKeys)
             /\ ~lastOp.threw
    /\ (lastOp.name = "get" /\ ~lastOp.hit) => (ret = Null /\ ~lastOp.threw)

\* has has answered true for a key stored with null while another key,
\* stored earlier, has been evicted
C8_Witness ==
    /\ lastOp.name = "has"
    /\ found
    /\ ValueOf(lastOp.key) = Null
    /\ \E key \in KeysOf(touchOrder) : ~LRU_has(State, key).ret

\* C9: after clear(), has(k) is false and get(k) returns null for every key,
\* the size is 0, and the cache is in the state of a newly constructed LRU
\* with the same limit, so that every later sequence of operations gives the
\* same results; the first L new keys are stored without eviction.
C9_ClearGivesNewCache ==
    /\ lastOp.name = "clear"
          => /\ \A key \in Keys :
                   /\ ~LRU_has(State, key).ret
                   /\ LRU_get(State, key).ret = Null
                   /\ ~LRU_get(State, key).w.err
             /\ MapSize = 0
             /\ LinkedList_size(State) = 0
             /\ ListRefs = <<>>
             /\ State = LRU_new(limit)
    /\ (lastOp.name = "put" /\ ~lastOp.hit /\ Len(touchOrder) <= limit)
          => /\ ~lastOp.threw
             /\ ret = Null
             /\ MapSize = lastOp.before + 1
             /\ DOMAIN map = KeysOf(touchOrder)

\* clear() has emptied a full cache of two or more entries
C9_Witness ==
    /\ lastOp.name = "clear"
    /\ lastOp.before = limit
    /\ limit >= 2
    /\ MapSize = 0

\* C10: with a limit <= 0, a put into the empty cache stores the entry
\* without eviction, and every later put of a new key evicts the single
\* stored entry: after at least one put and no later clear the cache holds
\* exactly one entry.
C10_NonPositiveLimitHoldsOne ==
    limit <= 0 =>
        /\ touchOrder # <<>>
              => /\ MapSize = 1
                 /\ LinkedList_size(State) = 1
                 /\ Len(ListRefs) = 1
        /\ (lastOp.name = "put" /\ lastOp.before = 0)
              => /\ ~lastOp.threw
                 /\ ret = Null
                 /\ DOMAIN map = {lastOp.key}
        /\ (lastOp.name = "put" /\ ~lastOp.hit /\ lastOp.before > 0)
              => /\ ~lastOp.threw
                 /\ lastOp.before = 1
                 /\ DOMAIN map = {lastOp.key}
                 /\ lastOp.oldest \notin DOMAIN map

\* With limit 0, a put of a new key has evicted the single stored entry
C10_Witness ==
    /\ limit = 0
    /\ lastOp.name = "put"
    /\ ~lastOp.hit
    /\ lastOp.before = 1
    /\ MapSize = 1
    /\ ret # Null

(***************************************************************************)
(* Properties of the four-point solver                                     *)
(***************************************************************************)
\* Twice the signed area of the triangle p, q, r
Cross(p, q, r) == (q[1] - p[1]) * (r[2] - p[2]) - (q[2] - p[2]) * (r[1] - p[1])

\* Three of the four points are on one line (two equal points are on one line
\* with any third)
Degenerate(quad) ==
    \E i, j, k \in 1..4 :
        i < j /\ j < k /\ Cross(Corner(quad, i), Corner(quad, j), Corner(quad, k)) = 0

\* The determinant of three rows of three numbers
Det3(r1, r2, r3) ==
    r1[1] * (r2[2] * r3[3] - r2[3] * r3[2])
        - r1[2] * (r2[1] * r3[3] - r2[3] * r3[1])
        + r1[3] * (r2[1] * r3[2] - r2[2] * r3[1])

\* The affine map (x, y) |-> (a x + b y + c, d x + e y + f) that takes the
\* first three points of src to the first three points of dest, as
\* <<a, b, c, d, e, f>>; src is not degenerate
AffineOf(src, dest) ==
    LET X(i) == src[2 * i - 1]
        Y(i) == src[2 * i]
        U(i) == dest[2 * i - 1]
        V(i) == dest[2 * i]
        D == Det3(<<X(1), Y(1), 1>>, <<X(2), Y(2), 1>>, <<X(3), Y(3), 1>>)
    IN <<Frac(Det3(<<U(1), Y(1), 1>>, <<U(2), Y(2), 1>>, <<U(3), Y(3), 1>>), D),
         Frac(Det3(<<X(1), U(1), 1>>, <<X(2), U(2), 1>>, <<X(3), U(3), 1>>), D),
         Frac(Det3(<<X(1), Y(1), U(1)>>, <<X(2), Y(2), U(2)>>, <<X(3), Y(3), U(3)>>), D),
         Frac(Det3(<<V(1), Y(1), 1>>, <<V(2), Y(2), 1>>, <<V(3), Y(3), 1>>), D),
         Frac(Det3(<<X(1), V(1), 1>>, <<X(2), V(2), 1>>, <<X(3), V(3), 1>>), D),
         Frac(Det3(<<X(1), Y(1), V(1)>>, <<X(2), Y(2), V(2)>>, <<X(3), Y(3), V(3)>>), D)>>

\* The image of (x, y) under the affine map f
AffineAt(f, x, y) ==
    <<RAdd(RAdd(RMul(f[1], Num(x)), RMul(f[2], Num(y))), f[3]),
      RAdd(RAdd(RMul(f[4], Num(x)), RMul(f[5], Num(y))), f[6])>>

\* dest is the image of the non-degenerate src under an invertible affine map
AffineImage(src, dest) ==
    /\ ~Degenerate(src)
    /\ LET f == AffineOf(src, dest)
       IN /\ AffineAt(f, src[7], src[8]) = <<Num(dest[7]), Num(dest[8])>>
          /\ RSub(RMul(f[1], f[5]), RMul(f[2], f[4])) # Num(0)

\* C11: whenever buildTransformer has returned a transform, the transform
\* takes each of the four points of src to the corresponding point of dest.
C11_MapsSourceToDest ==
    applied # <<>> =>
        \A i \in 1..4 :
            <<applied[2], applied[3]>> = Corner(transforms[applied[1]].src, i)
                => out = <<Num(Corner(transforms[applied[1]].dest, i)[1]),
                           Num(Corner(transforms[applied[1]].dest, i)[2])>>

\* C12: buildTransformer returns no transform when three of the four points
\* of src are on one line or two of them are equal, whatever dest is.
C12_DegenerateSourceNoTransform ==
    \A k \in 1..Len(transforms) :
        Degenerate(transforms[k].src) => transforms[k].vh = <<>>

\* C13: when dest is the image of a non-degenerate src under an affine map,
\* buildTransformer returns a transform with vh[6] = vh[7] = 0 that takes
\* every point to its image under that affine map; for the scale example it
\* takes (5, 5) to (2.5, 2.5).
C13_AffineImageGivesAffineTransform ==
    \A k \in 1..Len(transforms) :
        AffineImage(transforms[k].src, transforms[k].dest) =>
            /\ transforms[k].vh # <<>>
            /\ transforms[k].vh[7] = Num(0)
            /\ transforms[k].vh[8] = Num(0)
            /\ (applied # <<>> /\ applied[1] = k) =>
                   /\ out = AffineAt(AffineOf(transforms[k].src, transforms[k].dest),
                                     applied[2], applied[3])
                   /\ (/\ transforms[k].src = <<0, 0, 10, 0, 10, 10, 0, 10>>
                       /\ transforms[k].dest = <<0, 0, 5, 0, 5, 5, 0, 5>>
                       /\ applied[2] = 5
                       /\ applied[3] = 5) => out = <<Frac(5, 2), Frac(5, 2)>>

\* The transform of the scale example has been applied to (5, 5)
C13_Witness ==
    /\ applied # <<>>
    /\ transforms[applied[1]].src = <<0, 0, 10, 0, 10, 10, 0, 10>>
    /\ transforms[applied[1]].dest = <<0, 0, 5, 0, 5, 5, 0, 5>>
    /\ applied[2] = 5
    /\ applied[3] = 5
    /\ out = <<Frac(5, 2), Frac(5, 2)>>

IntervalFns ==
    {"quadraticAt", "quadraticDerivativeAt", "quadraticSubdivide",
     "cubicAt", "cubicDerivativeAt", "cubicSubdivide"}

SubdivideFns == {"quadraticSubdivide", "cubicSubdivide"}

\* The functions that write to roots and return a count
RootFns == {"quadraticRootAt", "cubicExtrema", "cubicRootAt"}

\* 0 <= x <= 1
InUnit(x) == RLe(Num(0), x) /\ RLe(x, Num(1))

\* C15: quadraticAt, quadraticDerivativeAt, quadraticSubdivide, cubicAt,
\* cubicDerivativeAt and cubicSubdivide throw for every t < 0 and every t > 1
\* and throw nothing for 0 <= t <= 1, the ends 0 and 1 included; when a
\* Subdivide call throws, out is as it was passed.
C15_ErrorExactlyOutsideUnitInterval ==
    call.fn \in IntervalFns
        => /\ RLt(input.t, Num(0)) \/ RLt(Num(1), input.t) => call.threw
           /\ InUnit(input.t) => ~call.threw
           /\ call.threw /\ call.fn \in SubdivideFns => outArr = input.out

\* A Subdivide call with t above 1 has thrown and left a filled out alone
C15_Witness ==
    /\ call.fn = "cubicSubdivide"
    /\ RLt(Num(1), input.t)
    /\ call.threw
    /\ input.out # <<>>
    /\ outArr = input.out

\* ---- polynomials with rational coefficients, <<c0, c1, ..>> for
\* c0 + c1 * t + .., the last coefficient not 0 ----
RECURSIVE Trim(_)
Trim(f) ==
    IF Len(f) = 0 \/ f[Len(f)] # Num(0) THEN f ELSE Trim(SubSeq(f, 1, Len(f) - 1))

PolyNeg(f) == [i \in 1..Len(f) |-> RNeg(f[i])]

\* The derivative of f
PolyDer(f) == [i \in 1..(Len(f) - 1) |-> RMul(Num(i), f[i + 1])]

\* The remainder of the division of f by g, g not 0
RECURSIVE PolyRem(_, _)
PolyRem(f, g) ==
    IF Len(f) < Len(g) THEN f
    ELSE LET q == RDiv(f[Len(f)], g[Len(g)])
             k == Len(f) - Len(g)
         IN PolyRem(Trim([i \in 1..(Len(f) - 1) |->
                             IF i > k THEN RSub(f[i], RMul(q, g[i - k])) ELSE f[i]]),
                    g)

\* The Sturm chain f, g, -rem(f, g), ..
RECURSIVE SturmChain(_, _)
SturmChain(f, g) ==
    IF Len(g) = 0 THEN <<f>> ELSE <<f>> \o SturmChain(g, PolyNeg(PolyRem(f, g)))

\* f(1)
RECURSIVE PolyAt1(_)
PolyAt1(f) == IF Len(f) = 0 THEN Num(0) ELSE RAdd(f[1], PolyAt1(Tail(f)))

\* The changes of sign in the sequence of integers s, zeros left out, after a
\* number of sign last
RECURSIVE Variations(_, _)
Variations(s, last) ==
    IF Len(s) = 0 THEN 0
    ELSE IF Sgn(s[1]) = 0 THEN Variations(Tail(s), last)
    ELSE (IF last # 0 /\ Sgn(s[1]) # last THEN 1 ELSE 0)
         + Variations(Tail(s), Sgn(s[1]))

\* The different real roots t with 0 < t <= 1 of the polynomial f that has
\* neither 0 nor 1 as a root of higher order (Sturm's theorem)
SturmCount(f) ==
    LET chain == SturmChain(f, PolyDer(f))
        at0 == [i \in 1..Len(chain) |-> chain[i][1][1]]
        at1 == [i \in 1..Len(chain) |-> PolyAt1(chain[i])[1]]
    IN Variations(at0, 0) - Variations(at1, 0)

\* The polynomial <<c0, c1, ..>> of finite coefficients has a real root t with
\* 0 <= t <= 1
HasRootInUnit(coefficients) ==
    LET f == Trim(coefficients)
    IN \/ Len(f) = 0
       \/ /\ Len(f) > 1
          /\ \/ f[1] = Num(0)
             \/ PolyAt1(f) = Num(0)
             \/ SturmCount(f) > 0

\* coefficients, all divided by the size of the last one that is not 0
Normal(coefficients) ==
    LET f == Trim(coefficients)
    IN IF Len(f) = 0 THEN f
       ELSE [i \in 1..Len(f) |-> RDiv(f[i], <<Abs(f[Len(f)][1]), f[Len(f)][2]>>)]

\* The equation that the call solves, as the polynomial that is to be 0:
\* B(t) - val for the Bezier polynomial B of p0, p1, p2 (and p3), and B'(t) for
\* cubicExtrema
QuadraticPoly(p0, p1, p2, val) ==
    <<RSub(p0, val), RMul(Num(2), RSub(p1, p0)),
      RAdd(RSub(p0, RMul(Num(2), p1)), p2)>>

CubicPoly(p0, p1, p2, p3, val) ==
    <<RSub(p0, val), RMul(Num(3), RSub(p1, p0)),
      RMul(Num(3), RAdd(RSub(p2, RMul(Num(2), p1)), p0)),
      RSub(RAdd(RSub(p3, RMul(Num(3), p2)), RMul(Num(3), p1)), p0)>>

EquationOf(fn, in) ==
    IF fn = "quadraticRootAt" THEN QuadraticPoly(in.p[1], in.p[2], in.p[3], in.val)
    ELSE IF fn = "cubicRootAt"
    THEN CubicPoly(in.p[1], in.p[2], in.p[3], in.p[4], in.val)
    ELSE PolyDer(CubicPoly(in.p[1], in.p[2], in.p[3], in.p[4], Num(0)))

\* The numbers passed are reals
AllFinite(in) ==
    /\ \A i \in 1..4 : IsFinite(in.p[i])
    /\ IsFinite(in.val)

\* The equation of the call has no real solution t with 0 <= t <= 1
NoSolution(fn, in) == ~HasRootInUnit(Normal(EquationOf(fn, in)))

\* x is 0, or it is so far from 0 that neither isAroundZero nor
\* (for the second test of the linear case) the failure of isNotAroundZero
\* takes it for 0
Crisp(x) == x = Num(0) \/ isNotAroundZero(x)

\* The quantities that the case split of the call tests are all crisp
CrispCall(fn, in) ==
    LET f == EquationOf(fn, in)
    IN IF fn = "cubicRootAt"
       THEN LET A == RSub(RMul(f[3], f[3]), RMul(RMul(Num(3), f[4]), f[2]))
                B == RSub(RMul(f[3], f[2]), RMul(RMul(Num(9), f[4]), f[1]))
                C == RSub(RMul(f[2], f[2]), RMul(RMul(Num(3), f[3]), f[1]))
            IN /\ Crisp(A) /\ Crisp(B) /\ Crisp(f[3])
               /\ Crisp(RSub(RMul(B, B), RMul(RMul(Num(4), A), C)))
       ELSE /\ Crisp(f[3])
            /\ Crisp(f[2])
            /\ f[3] # Num(0)
                 => Crisp(RSub(RMul(f[2], f[2]), RMul(RMul(Num(4), f[3]), f[1])))

\* C16, as claimed: quadraticRootAt, cubicExtrema and cubicRootAt throw
\* nothing, every roots[i] with i below the returned count is in [0, 1], and
\* the returned count is 0 when the equation has no solution in [0, 1].
C16_InRangeAndZeroWithoutSolution ==
    call.fn \in RootFns
        => /\ ~call.threw
           /\ \A i \in 1..call.n : InUnit(rootsArr[i])
           /\ AllFinite(input) /\ NoSolution(call.fn, input) => call.n = 0

\* C16, amended: the same, with the count 0 for an equation without solution
\* required only when each quantity that the case split tests is either 0 or
\* not around zero.
C16_InRangeAndZeroWithoutSolutionWhenCrisp ==
    call.fn \in RootFns
        => /\ ~call.threw
           /\ \A i \in 1..call.n : InUnit(rootsArr[i])
           /\ AllFinite(input) /\ CrispCall(call.fn, input)
                  /\ NoSolution(call.fn, input)
                => call.n = 0

\* cubicRootAt has met a cubic without a solution in [0, 1], over a roots array
\* that holds 7, 7, 7 from an earlier use
C16_Witness ==
    /\ call.fn = "cubicRootAt"
    /\ AllFinite(input)
    /\ CrispCall(call.fn, input)
    /\ NoSolution(call.fn, input)
    /\ call.n = 0
    /\ input.roots # <<>>

\* A, B and b of cubicRootAt for the cubic with the coefficients f[4], f[3],
\* f[2], f[1] of t^3, t^2, t, 1
CubicA(f) == RSub(RMul(f[3], f[3]), RMul(RMul(Num(3), f[4]), f[2]))

CubicB(f) == RSub(RMul(f[3], f[2]), RMul(RMul(Num(9), f[4]), f[1]))

\* C17: in cubicRootAt, when A = b^2 - 3ac and B = bc - 9ad are both around
\* zero and b is around zero, exactly one root is reported, t = 0: roots[0] is
\* 0 and the returned count is 1.
C17_DegenerateCubicReportsRootZero ==
    call.fn = "cubicRootAt"
        => LET f == EquationOf("cubicRootAt", input)
           IN isAroundZero(CubicA(f)) /\ isAroundZero(CubicB(f)) /\ isAroundZero(f[3])
                  => call.n = 1 /\ rootsArr[1] = Num(0)

\* The derivative coefficients a = 9p1 + 3p3 - 3p0 - 9p2, b = 6p2 - 12p1 + 6p0
\* and c = 3p1 - 3p0 of the cubic p, as <<a, b, c>>
DerivativeCoefficients(p) ==
    << RSub(RSub(RAdd(RMul(Num(9), p[2]), RMul(Num(3), p[4])), RMul(Num(3), p[1])),
            RMul(Num(9), p[3])),
       RAdd(RSub(RMul(Num(6), p[3]), RMul(Num(12), p[2])), RMul(Num(6), p[1])),
       RSub(RMul(Num(3), p[2]), RMul(Num(3), p[1])) >>

\* What quadraticRootAt's case split reports for a t^2 + b t + c = 0: the
\* call with p0 = c, p1 = c + b / 2, p2 = a + b + c and val = 0 computes
\* exactly a, b and c
QuadraticCaseSplit(k, roots) ==
    quadraticRootAt(k[3], RAdd(k[3], RDiv(k[2], Num(2))),
                    RAdd(RAdd(k[1], k[2]), k[3]), Num(0), roots)

\* C18: for all real p0..p3, cubicExtrema returns the same count and reports
\* the same values as quadraticRootAt's case split applied to the derivative
\* coefficients a, b, c; in particular the single extremum -b / (2a) in [0, 1]
\* when a is not around zero and b^2 - 4ac is.
C18_ExtremaAsQuadraticRoots ==
    call.fn = "cubicExtrema" /\ AllFinite(input)
        => LET q == QuadraticCaseSplit(DerivativeCoefficients(input.p), input.roots)
           IN /\ call.n = q.n
              /\ \A i \in 1..q.n : rootsArr[i] = q.roots[i]

\* f(x) for the polynomial f
RECURSIVE PolyAt(_, _)
PolyAt(f, x) ==
    IF Len(f) = 0 THEN Num(0) ELSE RAdd(f[1], RMul(x, PolyAt(Tail(f), x)))

\* b^2 - 4ac for the polynomial c + b t + a t^2
Disc(f) == RSub(RMul(f[2], f[2]), RMul(RMul(Num(4), f[3]), f[1]))

\* The different real roots t with 0 <= t <= 1 of the polynomial f of degree
\* 1 or 2
RootCount(f) ==
    IF Len(f) = 3 /\ Disc(f) = Num(0)
    THEN IF InUnit(RDiv(RNeg(f[2]), RMul(Num(2), f[3]))) THEN 1 ELSE 0
    ELSE (IF f[1] = Num(0) THEN 1 ELSE 0) + SturmCount(f)

\* Math.sqrt(x) is x's square root exactly
SqrtIsExact(x) == RMul(Sqrt(x), Sqrt(x)) = x

\* The roots that the case split takes for c + b t + a t^2 = 0 are computed
\* from a rounded square root
Rounded(f) ==
    /\ ~isAroundZero(f[3])
    /\ RLt(Num(0), Disc(f))
    /\ ~SqrtIsExact(Disc(f))

\* The elements of the sequence s
Range(s) == {s[i] : i \in 1..Len(s)}

\* reported holds exactly the solutions in [0, 1] of f(t) = 0, each of them
\* once, for f of degree 1 or 2; of a solution that takes a rounded square
\* root, it holds the rounded value
ExactlySolutions(f, reported) ==
    /\ Cardinality(Range(reported)) = Len(reported)
    /\ Len(reported) = RootCount(Normal(f))
    /\ \A i \in 1..Len(reported) :
          /\ InUnit(reported[i])
          /\ ~Rounded(f) => PolyAt(Normal(f), reported[i]) = Num(0)

\* The roots of the case split for c + b t + a t^2 = 0 with f = <<c, b, a>>,
\* before those outside [0, 1] are dropped; linear tells whether the linear
\* case has a root
CaseSplit(f, linear) ==
    IF isAroundZero(f[3]) THEN IF linear THEN << RDiv(RNeg(f[1]), f[2]) >> ELSE << >>
    ELSE IF isAroundZero(Disc(f)) THEN << RDiv(RNeg(f[2]), RMul(Num(2), f[3])) >>
    ELSE IF RLt(Num(0), Disc(f))
    THEN << RDiv(RAdd(RNeg(f[2]), Sqrt(Disc(f))), RMul(Num(2), f[3])),
            RDiv(RSub(RNeg(f[2]), Sqrt(Disc(f))), RMul(Num(2), f[3])) >>
    ELSE << >>

\* The scalar quadratic of p0, p1, p2 is not constant
NonConstant(in) == ~(in.p[1] = in.p[2] /\ in.p[2] = in.p[3])

\* C19, as claimed: for every non-constant scalar quadratic and every val,
\* quadraticRootAt reports exactly the t in [0, 1] that solve the equation, and
\* they are those of the case split: -c / b when a is around zero and b is not
\* around zero, -b / (2a) when the discriminant is around zero,
\* (-b + sqrt(disc)) / (2a) then (-b - sqrt(disc)) / (2a) when it is positive,
\* none when it is negative, each kept only if in [0, 1].
C19_ReportsExactlyTheSolutions ==
    call.fn = "quadraticRootAt" /\ AllFinite(input) /\ NonConstant(input)
        => LET f == EquationOf("quadraticRootAt", input)
           IN /\ SubSeq(rootsArr, 1, call.n)
                    = SelectSeq(CaseSplit(f, ~isAroundZero(f[2])), InUnit)
              /\ ExactlySolutions(f, SubSeq(rootsArr, 1, call.n))

\* C19, amended: the reported roots are those of the case split, where the
\* linear case has its root only when b is beyond EPSILON (isNotAroundZero);
\* they are exactly the solutions in [0, 1] when each of a, b and the
\* discriminant is either 0 or not around zero.
C19_ReportsTheCaseSplitAndSolutionsWhenCrisp ==
    call.fn = "quadraticRootAt" /\ AllFinite(input) /\ NonConstant(input)
        => LET f == EquationOf("quadraticRootAt", input)
           IN /\ SubSeq(rootsArr, 1, call.n)
                    = SelectSeq(CaseSplit(f, isNotAroundZero(f[2])), InUnit)
              /\ CrispCall("quadraticRootAt", input)
                    => ExactlySolutions(f, SubSeq(rootsArr, 1, call.n))

\* quadraticRootAt has reported two different solutions of a crisp equation
C19_Witness ==
    /\ call.fn = "quadraticRootAt"
    /\ AllFinite(input)
    /\ NonConstant(input)
    /\ CrispCall("quadraticRootAt", input)
    /\ call.n = 2
    /\ rootsArr[1] # rootsArr[2]
    /\ ~Rounded(EquationOf("quadraticRootAt", input))

\* The index in out of the last point that a Subdivide call writes, and the
\* argument that is the last control point
LastOut(fn) == IF fn = "quadraticSubdivide" THEN 6 ELSE 8

LastPoint(fn) == IF fn = "quadraticSubdivide" THEN 3 ELSE 4

\* C20: quadraticSubdivide and cubicSubdivide leave the coordinates of every
\* control point as they were, for every t in [0, 1], and the first and the
\* last element of out are the references to the first and the last control
\* point themselves.
C20_SubdivideKeepsControlPoints ==
    call.fn \in SubdivideFns /\ InUnit(input.t)
        => /\ \A h \in Handles : vec[h] = input.vec[h]
           /\ Len(outArr) >= LastOut(call.fn)
           /\ outArr[1] = input.v[1]
           /\ outArr[LastOut(call.fn)] = input.v[LastPoint(call.fn)]

\* quadraticSubdivide has split a curve inside (0, 1) into an out that was
\* filled before
C20_Witness ==
    /\ call.fn = "quadraticSubdivide"
    /\ RLt(Num(0), input.t) /\ RLt(input.t, Num(1))
    /\ input.out # <<>>
    /\ input.v[1] # input.v[3]
    /\ outArr[1] = input.v[1]
    /\ outArr[6] = input.v[3]
    /\ \A h \in Handles : vec[h] = input.vec[h]

\* The vectors after ref[0] = xy[0]; ref[1] = xy[1], a write in place to the
\* vector behind the reference ref
WrittenInPlace(h, ref, xy) == [h EXCEPT ![ref] = xy]

\* Coordinates that no control point and no point of a curve explored has
Elsewhere == << Num(9), Num(9) >>

\* A write in place to out[i] (i counted from 1) leaves v0, v1 and v2 as they
\* are
LeavesInputs(i) ==
    \A k \in 1..3 :
        WrittenInPlace(vec, outArr[i], Elsewhere)[input.v[k]] = vec[input.v[k]]

\* C21, as claimed: after quadraticSubdivide, a write in place to the
\* coordinates of any out[i] leaves the coordinates of v0, v1 and v2 unchanged.
C21_OutAliasesNoInput ==
    call.fn = "quadraticSubdivide" /\ ~call.threw
        => \A i \in 1..6 : LeavesInputs(i)

\* C21, amended: after quadraticSubdivide, a write in place to one of the four
\* new points out[1..4] leaves v0, v1 and v2 unchanged, while out[0] is v0 and
\* out[5] is v2, so that a write in place to them changes v0 and v2.
C21_NewPointsAliasNoInput ==
    call.fn = "quadraticSubdivide" /\ ~call.threw
        => /\ \A i \in 2..5 : LeavesInputs(i)
           /\ ~LeavesInputs(1)
           /\ ~LeavesInputs(6)

\* quadraticSubdivide has split a curve of three different control points: a
\* write to out[1] changes a vector, and none of v0, v1, v2
C21_Witness ==
    /\ call.fn = "quadraticSubdivide"
    /\ ~call.threw
    /\ Cardinality({input.v[1], input.v[2], input.v[3]}) = 3
    /\ WrittenInPlace(vec, outArr[2], Elsewhere) # vec
    /\ LeavesInputs(2)
    /\ ~LeavesInputs(1)

(***************************************************************************)
(* Properties of quadraticProjectAt and cubicProjectAt                     *)
(***************************************************************************)
\* x and y differ by eps at most
Within(x, y, eps) == RLe(RSub(x, y), eps) /\ RLe(RSub(y, x), eps)

\* The call has returned a value
ProjectReturned == proj.pc = "done" /\ ~proj.threw

\* The call is the one of 'quadratic project at', case 1: the curve [0,0],
\* [4,6], [8,0] and v = [4,9]
ProjectCase1 ==
    /\ proj.fn = "quadraticProjectAt"
    /\ input.vec[5] = <<Num(4), Num(9)>>

\* C22: quadraticProjectAt and cubicProjectAt return the Euclidean distance,
\* not its square, between the point v and the point they write into out (up
\* to 0.01); for the curve [0,0], [4,6], [8,0] and v = [4,9] they return 6
\* within 0.01.
C22_ReturnsDistanceToOut ==
    ProjectReturned
        => /\ Within(proj.ret,
                     Sqrt(squaredDistance(vec[input.v[5]], vec[input.v[6]])),
                     Frac(1, 100))
           /\ ProjectCase1 => Within(proj.ret, Num(6), Frac(1, 100))

\* C23: quadraticProjectAt and cubicProjectAt return normally for every query
\* point, also when the nearest point is the end t = 0 or t = 1, which is then
\* the result: no Error of quadraticAt or cubicAt ends the call.
C23_ProjectReturnsNormally ==
    proj.pc = "done"
        => /\ ~proj.threw
           /\ InUnit(proj.pt)
           /\ vec[input.v[6]] = PointAt(proj.fn, vec, input.v, proj.pt).xy

\* One step of a call: the scan leaves the step 0.005 and no iteration done; an
\* iteration is the next of 32 at most, runs only with a step of 1e-4 or more,
\* and leaves the step as it is or, when it moves neither t nor the distance,
\* half of it; the loop is left after 32 iterations or with a step below 1e-4
\* only (or by an Error).
ProjectStep ==
    /\ proj.pc = "idle" /\ proj'.pc = "refine"
          => proj'.interval = Frac(5, 1000) /\ proj'.i = 0
    /\ proj.pc = "refine" /\ proj'.pc = "refine"
          => /\ proj.i < 32
             /\ proj'.i = proj.i + 1
             /\ RLe(Frac(1, 10000), proj.interval)
             /\ \/ proj'.interval = proj.interval
                \/ /\ proj'.interval = RDiv(proj.interval, Num(2))
                   /\ proj'.pt = proj.pt
                   /\ proj'.pdSquared = proj.pdSquared
    /\ proj.pc = "refine" /\ proj'.pc = "done" /\ ~proj'.threw
          => proj.i = 32 \/ RLt(proj.interval, Frac(1, 10000))
    /\ proj'.i <= 32

\* C24: the refinement loop of quadraticProjectAt and cubicProjectAt always
\* terminates: it runs at most 32 iterations and stops at the first iteration
\* whose step is below 1e-4; the step starts at 0.005, is never increased, and
\* is halved only in an iteration that accepts neither t - step nor t + step.
C24_RefinementTerminates ==
    /\ [][ProjectStep]_vars
    /\ <>(proj.pc = "done")

\* A call has left the loop before its 32nd iteration, with a step below 1e-4,
\* and has returned
C24_Witness ==
    /\ ProjectReturned
    /\ proj.i > 6
    /\ proj.i < 32
    /\ RLt(proj.interval, Frac(1, 10000))

\* What the call made leaves in a separate array out: the call with the same
\* inputs and the array Spare as out
OutOfSeparate ==
    Applied(call.fn, input.vec, Spare, input.v[2], input.v[3], input.t, input.v[4])

\* The inputs of the call made: the arrays it reads, out excluded
InputsOf(fn) ==
    IF fn \in {"scale", "normalize", "invert", "rotate"} THEN {input.v[2]}
    ELSE IF fn = "skew" THEN {input.v[2], input.v[4]}
    ELSE {input.v[2], input.v[3]}

\* C25: add, sub, mul, div, scale, min, max, normalize, linearInterpolation,
\* invert, skew, rotate and multiply leave in out, when out is one of the
\* inputs, what they leave in a separate array out (and throw in the same
\* cases), and leave every array other than out as it was.
C25_OutMayBeAnInput ==
    call.fn \in VectorFns \cup MatrixFns
        => /\ call.threw = OutOfSeparate.threw
           /\ ~call.threw => vec[input.v[1]] = OutOfSeparate.vec[Spare]
           /\ \A ref \in 1..SkewBy : ref # input.v[1] => vec[ref] = input.vec[ref]
           /\ call.threw => vec = input.vec

\* multiply has been called with out the same array as m1 and has changed it
C25_Witness ==
    /\ call.fn = "multiply"
    /\ ~call.threw
    /\ input.v[1] = input.v[2]
    /\ input.v[1] # input.v[3]
    /\ vec[input.v[1]] # input.vec[input.v[1]]

(***************************************************************************)
(* Properties of determinate and its cache                                 *)
(***************************************************************************)
\* The number of rows (or columns) of 0..7 that a mask masks
PopCount(mask) == Cardinality({k \in 0..7 : BitSet(mask, k)})

\* The lowest row (or column) of 0..7 that a mask does not mask, 8 when it
\* masks them all
LowestUnmasked(mask) ==
    CHOOSE k \in 0..8 :
       /\ k = 8 \/ ~BitSet(mask, k)
       /\ \A l \in 0..(k - 1) : BitSet(mask, l)

\* Plain cofactor expansion, without a cache: the determinant of the rows and
\* columns of an 8 x 8 matrix that the masks leave, expanded along the lowest
\* of these rows; MinorFrom is the part of the sum from the column j on, idx
\* columns having been passed
RECURSIVE Minor(_, _, _)
RECURSIVE MinorFrom(_, _, _, _, _)
Minor(rows, rowMask, colMask) ==
    IF LowestUnmasked(rowMask) = 8 THEN 1
    ELSE MinorFrom(rows, rowMask, colMask, LowestUnmasked(colMask), 0)

MinorFrom(rows, rowMask, colMask, j, idx) ==
    IF j >= 8 THEN 0
    ELSE LET r == LowestUnmasked(rowMask)
             rest == MinorFrom(rows, rowMask, colMask, NextCol(8, colMask, j + 1),
                               idx + 1)
         IN IF rows[r + 1][j + 1] = 0 THEN rest
            ELSE (IF idx % 2 = 1 THEN -1 ELSE 1) * rows[r + 1][j + 1]
                     * Minor(rows, BitOr(rowMask, r), BitOr(colMask, j))
                 + rest

\* The call of determinate that the next step of the machine makes, as
\* <<rank, rowStart, rowMask, colMask>>, and <<>> when it makes none
CallOf(mA, m) ==
    IF m.done THEN <<>>
    ELSE IF m.stack = <<>>
    THEN IF m.n = -1 \/ m.returned \/ m.n >= 64 THEN <<>>
         ELSE <<7, IF m.n \div 8 = 0 THEN 1 ELSE 0, Shl(m.n \div 8), Shl(m.n % 8)>>
    ELSE LET f == m.stack[Len(m.stack)]
         IN IF f.j >= Len(mA) THEN <<>>
            ELSE <<f.rank - 1, SkipMasked(f.rowMask, f.rowStart + 1),
                   BitOr(f.rowMask, f.rowStart), BitOr(f.colMask, f.j)>>

\* The call c expands the lowest unmasked row, as many rows as columns are
\* unmasked, namely rank, and at rank 1 the column read is the unmasked one
CallSound(c) ==
    \/ c = <<>>
    \/ /\ c[1] >= 1
       /\ c[2] = LowestUnmasked(c[3])
       /\ PopCount(c[3]) = 8 - c[1]
       /\ PopCount(c[4]) = 8 - c[1]
       /\ c[1] = 1 => RoundLog2((Shl(8) - 1) - c[4]) = LowestUnmasked(c[4])

\* The machine run as Run runs it, from w.m, with w.ok telling whether every
\* call of determinate made on the way is sound
RECURSIVE Watched(_, _, _, _)
Watched(mA, dest, k, w) ==
    IF w.m.done THEN w
    ELSE IF k > 0 THEN Watched(mA, dest, k - 1, Watched(mA, dest, k - 1, w))
    ELSE [m |-> IF w.m.stack = <<>> THEN Solve(mA, dest, w.m)
                ELSE determinate(mA, w.m),
          ok |-> w.ok /\ CallSound(CallOf(mA, w.m))]

\* The calls of determinate of buildTransformer(src, dest) are all sound
CallsSound(src, dest) ==
    LET mA == MatrixOf(src, dest)
    IN Watched(mA, dest, RunDepth,
               [m |-> Enter(mA, [stack |-> <<>>, cache |-> NewDetCache(8),
                                 val |-> 0, returned |-> FALSE, det |-> 0,
                                 n |-> -1, vh |-> Repeat(8, Num(0)),
                                 done |-> FALSE],
                            8, 0, 0, 0),
                ok |-> CallSound(<<8, 0, 0, 0>>)]).ok

\* One call of buildTransformer has been made, and no other call
OneBuilt == Len(transforms) = 1 /\ applied = <<>>

\* C26: in a call of buildTransformer, every call of determinate expands the
\* lowest unmasked row, with as many unmasked rows as unmasked columns, namely
\* rank, and one unmasked column at rank 1; and every value that the cache
\* holds, which is what the calls with that key have returned, is the value
\* of plain cofactor expansion, the determinant of the unmasked rows and
\* columns.
C26_CacheReturnsPlainExpansion ==
    OneBuilt =>
        /\ CallsSound(transforms[1].src, transforms[1].dest)
        /\ \A rowMask \in 0..255 : \A colMask \in 0..255 :
              CacheHas(usedCache, rowMask, colMask) =>
                  /\ PopCount(rowMask) = PopCount(colMask)
                  /\ CacheGet(usedCache, rowMask, colMask)
                        = Minor(MatrixOf(transforms[1].src, transforms[1].dest),
                                rowMask, colMask)

\* A call of buildTransformer has computed the determinant and the 64
\* cofactors, and its cache holds the determinant and minors of every rank
C26_Witness ==
    /\ OneBuilt
    /\ transforms[1].vh # <<>>
    /\ CacheHas(usedCache, 0, 0)
    /\ CacheGet(usedCache, 0, 0) # 0
    /\ \A rank \in 2..7 :
          \E rowMask \in 0..255 : \E colMask \in 0..255 :
             /\ PopCount(rowMask) = 8 - rank
             /\ CacheHas(usedCache, rowMask, colMask)

C28_LinearCubicReportsItsRoot ==
    call.fn = "cubicRootAt"
        => LET f == EquationOf("cubicRootAt", input)
           IN /\ (/\ f[4] = Num(0)
                  /\ f[3] = Num(0)
                  /\ IsFinite(f[2]) /\ f[2] # Num(0)
                  /\ InUnit(RDiv(RNeg(f[1]), f[2])))
                     => call.n = 1 /\ rootsArr[1] = RDiv(RNeg(f[1]), f[2])
              /\ (/\ input.p = <<Num(0), Num(2), Num(4), Num(6)>>
                  /\ input.val = Num(3))
                     => call.n = 1 /\ rootsArr[1] = Frac(1, 2)

(***************************************************************************)
(* Properties of fromQuadraticCurve and fromCubicCurve                     *)
(***************************************************************************)
\* The rectangle r contains the point p, with 0 for a null x or y
Contains(r, p) ==
    /\ RLe(ToNumber(r.x), p[1])
    /\ RLe(p[1], RAdd(ToNumber(r.x), r.width))
    /\ RLe(ToNumber(r.y), p[2])
    /\ RLe(p[2], RAdd(ToNumber(r.y), r.height))

\* C29: the rectangle that fromQuadraticCurve(v0, v1, v2) returns contains the
\* end points v0 and v2 of the curve, and the rectangle that fromCubicCurve
\* returns contains v0 and v3.
C29_RectContainsEndPoints ==
    /\ call.fn = "fromQuadraticCurve"
          => /\ ~call.threw
             /\ Contains(call.ret, input.vec[1])
             /\ Contains(call.ret, input.vec[3])
    /\ call.fn = "fromCubicCurve"
          => /\ ~call.threw
             /\ Contains(call.ret, input.vec[1])
             /\ Contains(call.ret, input.vec[4])

(***************************************************************************)
(* Properties of the linked list of the LRU                                *)
(***************************************************************************)
\* The nodes met by following next from head until null, cut off one past
\* the number of live nodes (a longer walk has gone round a cycle)
NodesFromHead == Walk(heap, linkedList.head, Cardinality(DOMAIN heap) + 1)

\* C30: after any sequence of put, get, has and clear the linked list is well
\* formed: head.prev and tail.next are null, n.next.prev is n for every node
\* n other than the tail, following next from head visits exactly size()
\* distinct nodes and ends at tail, and head and tail are both null exactly
\* when size() is 0
C30_ListWellFormed ==
    LET head == linkedList.head
        tail == linkedList.tail
        nodes == NodesFromHead
    IN /\ head # Null => head \in DOMAIN heap /\ heap[head].prev = Null
       /\ tail # Null => tail \in DOMAIN heap /\ heap[tail].next = Null
       /\ \A n \in DOMAIN heap :
              n # tail => /\ heap[n].next \in DOMAIN heap
                          /\ heap[heap[n].next].prev = n
       /\ Len(nodes) = LinkedList_size(State)
       /\ \A i, j \in 1..Len(nodes) : nodes[i] = nodes[j] => i = j
       /\ nodes # <<>> => nodes[Len(nodes)] = tail
       /\ (head = Null /\ tail = Null) <=> LinkedList_size(State) = 0
       /\ (head = Null) <=> (tail = Null)

\* A get has moved the head of a list of two nodes to its tail
C30_Witness ==
    /\ lastOp.name = "get"
    /\ lastOp.hit
    /\ ~lastOp.threw
    /\ LinkedList_size(State) = 2
    /\ lastOp.oldest = lastOp.key
    /\ MostRecentKey = lastOp.key

====
